---- MODULE Spec2Model ----
(***************************************************************************)
(* Model of the label-safety engine: the ingredient normalizer            *)
(* (ingredientNormalizer.ts), the policy engine and the inference         *)
(* escalation service.  Strings are sequences of one-character strings,   *)
(* offsets are 0-based as in the source, confidences are in hundredths    *)
(* (1.0 = 100, 0.85 = 85).                                                 *)
(***************************************************************************)
EXTENDS Integers, Sequences, FiniteSets, TLC

VARIABLES
    pc,              \* position of the modelled call: "start", "parsed", "done"
    inputText,       \* the rawText handed to findEvidenceSpans / parseIngredientLabel
    inputTerm,       \* the searchTerm handed to findEvidenceSpans
    spanResult,      \* the spans findEvidenceSpans returned
    parsedLabel,     \* the ParsedLabel parseIngredientLabel returned
    inputProfiles,   \* the profiles handed to evaluateLabelForProfiles
    policyResults,   \* the PolicyResult[] built by profiles.map so far
    inputRisks,      \* the inferredRisks handed to escalateInferredRisks
    priorResults,    \* the results handed to escalateInferredRisks
    profileResults,  \* the results escalateInferredRisks returned
    escalated,       \* the escalatedItems escalateInferredRisks returned
    ocr,             \* the OCRResult extractTextFromImage resolved to
    analysis,        \* the AnalysisResult analyzeImageFull resolved to
    session,         \* the counters of the scan session as the caller holds them
    calls,           \* the isMRR argument of every updateSessionAttemptCounters call so far
    shown,           \* the shouldShowEscalation value every call returned
    persisted,       \* the counters in the scanSessions document
    attempts,        \* the calls of updateAndPersistSessionCounters in flight
    local,           \* mergeAnalysis argument local
    server,          \* mergeAnalysis argument server
    merged,          \* the result mergeAnalysis returned
    baseResult,      \* applyUserOverrideToResult argument result
    overridePayload, \* applyUserOverrideToResult argument overridePayload
    overridden,      \* the results of the successive applyUserOverrideToResult calls
    alertCalls,      \* every createAdminAlertIfNeeded call so far: its result and what it returned
    adminAlerts,     \* the documents of the adminAlerts collection
    names,           \* the arguments of computeItemFingerprint
    fingerprint,     \* what computeItemFingerprint returned
    historySaves,    \* the scan session of every saveScanToHistory call so far
    scanHistory,     \* the documents of the scanHistory collection
    clientAnalysis,  \* the AnalysisResult analyzeIngredientsText returned
    limiter,         \* the options createRateLimiter was called with
    windows,         \* the rate limiter's map from client key to {count, expiresAt}
    now,             \* Date.now() as the rate limiter reads it
    responses        \* the rate limiter's answer to every request so far

pipelineVars == <<inputText, inputTerm, spanResult, parsedLabel, inputProfiles, policyResults,
                  inputRisks, priorResults, profileResults, escalated>>
analysisVars == <<ocr, analysis>>
sessionVars == <<session, calls, shown, persisted, attempts>>
mergeVars == <<local, server, merged, baseResult, overridePayload, overridden>>
serviceVars == <<alertCalls, adminAlerts, names, fingerprint, historySaves, scanHistory,
                 clientAnalysis, limiter, windows, now, responses>>

vars == <<pc, pipelineVars, analysisVars, sessionVars, mergeVars, serviceVars>>

----------------------------------------------------------------------------
(* Strings *)

UpperChars == <<"A","B","C","D","E","F","G","H","I","J","K","L","M",
                "N","O","P","Q","R","S","T","U","V","W","X","Y","Z">>
LowerChars == <<"a","b","c","d","e","f","g","h","i","j","k","l","m",
                "n","o","p","q","r","s","t","u","v","w","x","y","z">>
DigitChars == {"0","1","2","3","4","5","6","7","8","9"}

Range(s) == {s[i] : i \in 1..Len(s)}

UpperSet == Range(UpperChars)
LowerOf == [c \in UpperSet |-> LowerChars[CHOOSE i \in 1..26 : UpperChars[i] = c]]

\* String.prototype.toLowerCase, one character
LowerChar(c) == IF c \in UpperSet THEN LowerOf[c] ELSE c

\* String.prototype.toLowerCase
ToLower(s) == [i \in 1..Len(s) |-> LowerChar(s[i])]

\* the regular-expression class \s; "\t" and "\n" stand for the ASCII
\* controls, "NBSP" for the Unicode spaces normalizeText replaces
IsSpace(c) == c \in {" ", "\t", "\n"}

\* the regular-expression class \w
WordChars == Range(UpperChars) \cup Range(LowerChars) \cup DigitChars \cup {"_"}
IsWordChar(c) == c \in WordChars

\* s.substring(from, to) for 0 <= from, to (JavaScript swaps the arguments
\* when from > to and clamps them to the length)
Substring(s, from, to) ==
    LET a == IF from < to THEN from ELSE to
        b == IF from < to THEN to ELSE from
        lo == IF a > Len(s) THEN Len(s) ELSE a
        hi == IF b > Len(s) THEN Len(s) ELSE b
    IN SubSeq(s, lo + 1, hi)

\* t occurs in s at the 0-based offset i
OccursAt(s, t, i) ==
    /\ i >= 0
    /\ i + Len(t) <= Len(s)
    /\ SubSeq(s, i + 1, i + Len(t)) = t

\* String.prototype.includes
Includes(s, t) == \E i \in 0..(Len(s) - Len(t)) : OccursAt(s, t, i)

\* the least element of a non-empty set of integers
Min(S) == CHOOSE x \in S : \A y \in S : x <= y

\* String.prototype.indexOf(t, pos), -1 when there is no occurrence
IndexOf(s, t, pos) ==
    LET hits == {i \in pos..(Len(s) - Len(t)) : OccursAt(s, t, i)}
    IN IF hits # {} THEN Min(hits) ELSE -1

\* the elements of s at the indexes in keep, in order
AtIndexes(s, keep) ==
    [k \in 1..Cardinality(keep) |->
        s[CHOOSE i \in keep : Cardinality({j \in keep : j <= i}) = k]]

\* String.prototype.trim
RECURSIVE TrimLeft(_)
TrimLeft(s) == IF s # <<>> /\ IsSpace(Head(s)) THEN TrimLeft(Tail(s)) ELSE s
RECURSIVE TrimRight(_)
TrimRight(s) ==
    IF s # <<>> /\ IsSpace(s[Len(s)]) THEN TrimRight(SubSeq(s, 1, Len(s) - 1)) ELSE s
Trim(s) == TrimRight(TrimLeft(s))

\* all sequences over S of length 0..n
SeqsUpTo(S, n) == UNION {[1..k -> S] : k \in 0..n}

\* the concatenation of a sequence of strings
RECURSIVE Concat(_)
Concat(ss) == IF ss = <<>> THEN <<>> ELSE Head(ss) \o Concat(Tail(ss))

\* obj.field ?? fallback: a field that is undefined or null is a field the
\* object does not carry
Coalesce(obj, field, fallback) == IF field \in DOMAIN obj THEN obj[field] ELSE fallback

\* the object with only the fields of S
Restrict(obj, S) == [field \in S |-> obj[field]]

----------------------------------------------------------------------------
(* ingredientNormalizer.ts: findEvidenceSpans *)

\* the boundary test without the \s alternative
isBoundaryNoSpace(c) == c \in {",", ";", ":", "(", "[", "]", ".", "/", "-"}

\* /[\s,;:([\]./\-]/.test(charBefore)
isBoundaryBefore(c) == IsSpace(c) \/ c \in {",", ";", ":", "(", "[", "]", ".", "/", "-"}

\* /[\s,;:)\]./\-]/.test(charAfter)
isBoundaryAfter(c) == IsSpace(c) \/ c \in {",", ";", ":", ")", "]", ".", "/", "-"}

\* the while loop of findEvidenceSpans
RECURSIVE spansLoop(_, _, _, _)
spansLoop(lowerText, lowerTerm, pos, acc) ==
    IF pos >= Len(lowerText) THEN acc
    ELSE LET idx == IndexOf(lowerText, lowerTerm, pos) IN
         IF idx = -1 THEN acc
         ELSE LET charBefore == IF idx > 0 THEN lowerText[idx] ELSE " "
                  charAfter == IF idx + Len(lowerTerm) < Len(lowerText)
                               THEN lowerText[idx + Len(lowerTerm) + 1]
                               ELSE " "
                  hit == isBoundaryBefore(charBefore) /\ isBoundaryAfter(charAfter)
              IN spansLoop(lowerText, lowerTerm, idx + 1,
                           IF hit
                           THEN Append(acc, [start |-> idx, end |-> idx + Len(lowerTerm)])
                           ELSE acc)

findEvidenceSpans(text, term) == spansLoop(ToLower(text), ToLower(term), 0, <<>>)

----------------------------------------------------------------------------
(* ingredientNormalizer.ts: normalizeText *)

\* the four character replacements of normalizeText; "NBSP" stands for the
\* Unicode spaces of the first class, "NDASH" and "MDASH" for the two
\* dashes, "BACKTICK" for the grave accent
normalizeChar(c) ==
    IF c = "NBSP" THEN " "
    ELSE IF c = "BACKTICK" THEN "'"
    ELSE IF c \in {"NDASH", "MDASH"} THEN "-"
    ELSE c

\* .replace(/\s+/g, " "): every run of whitespace becomes one space
collapseSpaces(s) ==
    LET keep == {i \in 1..Len(s) : ~IsSpace(s[i]) \/ i = 1 \/ ~IsSpace(s[i - 1])}
        kept == AtIndexes(s, keep)
    IN [k \in 1..Len(kept) |-> IF IsSpace(kept[k]) THEN " " ELSE kept[k]]

normalizeText(text) ==
    Trim(collapseSpaces([i \in 1..Len(text) |-> normalizeChar(text[i])]))

----------------------------------------------------------------------------
(* ingredientNormalizer.ts: the regular expressions of detectSections and *)
(* findNextSectionStart.  A matcher gives the offset at which the match   *)
(* that starts at offset p ends, or -1 when the pattern does not match at *)
(* p.                                                                      *)

kwMayContain == <<"m","a","y"," ","c","o","n","t","a","i","n">>
kwProduced == <<"p","r","o","d","u","c","e","d"," ","i","n"," ","a"," ","f","a","c","i","l","i","t","y"," ","t","h","a","t"," ">>
kwAlso == <<"a","l","s","o"," ">>
kwProcesses == <<"p","r","o","c","e","s","s","e","s">>
kwHandles == <<"h","a","n","d","l","e","s">>
kwUses == <<"u","s","e","s">>
kwContains == <<"c","o","n","t","a","i","n","s">>
kwAllergen == <<"a","l","l","e","r","g","e","n">>
kwIngredients == <<"i","n","g","r","e","d","i","e","n","t","s">>
kwMay == <<"m","a","y">>

\* the alternation of findNextSectionStart, in the order of the source
sectionKeywords == <<
    kwIngredients,
    kwContains,
    kwMayContain,
    kwAllergen,
    <<"n","u","t","r","i","t","i","o","n"," ","f","a","c","t","s">>,
    <<"s","e","r","v","i","n","g"," ","s","i","z","e">>,
    <<"c","a","l","o","r","i","e","s">>,
    <<"d","i","s","t","r","i","b","u","t","e","d"," ","b","y">>,
    <<"m","a","n","u","f","a","c","t","u","r","e","d"," ","b","y">> >>

\* the character at 0-based offset i, "" past the end
At(s, i) == IF i >= 0 /\ i < Len(s) THEN s[i + 1] ELSE ""

\* \s* from offset i (greedy)
RECURSIVE skipSpaces(_, _)
skipSpaces(s, i) == IF IsSpace(At(s, i)) THEN skipSpaces(s, i + 1) ELSE i

\* \b at offset i
wordBoundary(s, i) == IsWordChar(At(s, i - 1)) # IsWordChar(At(s, i))

\* \s*[:.]?\s* from offset i
tailColonDot(s, i) ==
    LET a == skipSpaces(s, i)
        b == IF At(s, a) \in {":", "."} THEN a + 1 ELSE a
    IN skipSpaces(s, b)

\* \s*[:]\s* from offset i
tailColon(s, i) ==
    LET a == skipSpaces(s, i)
    IN IF At(s, a) = ":" THEN skipSpaces(s, a + 1) ELSE -1

\* /may contain[s]?\s*[:.]?\s*/
reMayContain(s, p) ==
    IF OccursAt(s, kwMayContain, p)
    THEN LET a == p + Len(kwMayContain)
             b == IF At(s, a) = "s" THEN a + 1 ELSE a
         IN tailColonDot(s, b)
    ELSE -1

\* /produced in a facility that (?:also )?(?:processes|handles|uses)\s*[:.]?\s*/
reProducedIn(s, p) ==
    IF OccursAt(s, kwProduced, p)
    THEN LET a == p + Len(kwProduced)
             b == IF OccursAt(s, kwAlso, a) THEN a + Len(kwAlso) ELSE a
         IN IF OccursAt(s, kwProcesses, b) THEN tailColonDot(s, b + Len(kwProcesses))
            ELSE IF OccursAt(s, kwHandles, b) THEN tailColonDot(s, b + Len(kwHandles))
            ELSE IF OccursAt(s, kwUses, b) THEN tailColonDot(s, b + Len(kwUses))
            ELSE -1
    ELSE -1

\* /[.;]\s*contains\s*[:]\s*/
reDotContains(s, p) ==
    IF At(s, p) \in {".", ";"}
    THEN LET a == skipSpaces(s, p + 1)
         IN IF OccursAt(s, kwContains, a) THEN tailColon(s, a + Len(kwContains)) ELSE -1
    ELSE -1

\* /\bcontains\s*[:]\s*/
reContains(s, p) ==
    IF OccursAt(s, kwContains, p) /\ wordBoundary(s, p)
    THEN tailColon(s, p + Len(kwContains))
    ELSE -1

\* /\ballergens?\s*[:]\s*/
reAllergens(s, p) ==
    IF OccursAt(s, kwAllergen, p) /\ wordBoundary(s, p)
    THEN LET a == p + Len(kwAllergen)
         IN IF At(s, a) = "s" THEN tailColon(s, a + 1) ELSE tailColon(s, a)
    ELSE -1

\* /ingredients\s*[:]\s*/
reIngredients(s, p) ==
    IF OccursAt(s, kwIngredients, p) THEN tailColon(s, p + Len(kwIngredients)) ELSE -1

\* /[.;]?\s*\b(ingredients|contains|...|manufactured by)\s*[:]/
reNextSection(s, p) ==
    LET a == IF At(s, p) \in {".", ";"} THEN p + 1 ELSE p
        b == skipSpaces(s, a)
        hits == {k \in 1..Len(sectionKeywords) : OccursAt(s, sectionKeywords[k], b)}
    IN IF hits # {} /\ wordBoundary(s, b)
       THEN LET k == CHOOSE k \in hits : TRUE
                c == skipSpaces(s, b + Len(sectionKeywords[k]))
            IN IF At(s, c) = ":" THEN c + 1 ELSE -1
       ELSE -1

matchEnd(re, s, p) ==
    CASE re = "mayContain" -> reMayContain(s, p)
      [] re = "producedIn" -> reProducedIn(s, p)
      [] re = "dotContains" -> reDotContains(s, p)
      [] re = "contains" -> reContains(s, p)
      [] re = "allergens" -> reAllergens(s, p)
      [] re = "ingredients" -> reIngredients(s, p)
      [] re = "nextSection" -> reNextSection(s, p)

NoMatch == [index |-> -1, end |-> -1]

\* RegExp.prototype.exec with lastIndex = from: the leftmost match at an
\* offset >= from
exec(re, s, from) ==
    LET hits == {p \in from..(Len(s) - 1) : matchEnd(re, s, p) # -1}
    IN IF hits = {} THEN NoMatch
       ELSE [index |-> Min(hits), end |-> matchEnd(re, s, Min(hits))]

\* findNextSectionStart: 0 stands for the null the source returns (a match
\* starts at an offset >= after + 1 >= 1, and the callers test it with ||)
findNextSectionStart(lowerText, after) ==
    LET match == exec("nextSection", lowerText, after + 1)
    IN IF match # NoMatch THEN match.index ELSE 0

----------------------------------------------------------------------------
(* ingredientNormalizer.ts: detectSections *)

\* a block that was not detected
NotFound == [found |-> FALSE, start |-> 0, end |-> 0]

\* findNextSectionStart(lower, start) || text.length
nextSectionOrEnd(text, lower, start) ==
    LET next == findNextSectionStart(lower, start)
    IN IF next # 0 THEN next ELSE Len(text)

\* the loop over mayContainPatterns: the first pattern that matches decides
mayContainMatch(lower) ==
    LET m1 == exec("mayContain", lower, 0)
    IN IF m1 # NoMatch THEN m1 ELSE exec("producedIn", lower, 0)

\* the body of the loop for the match found
mayContainBlock(text, lower, match) ==
    IF match = NoMatch THEN NotFound
    ELSE [found |-> TRUE, start |-> match.end,
          end |-> nextSectionOrEnd(text, lower, match.end)]

\* the "May contain" block
detectMayContain(text, lower) == mayContainBlock(text, lower, mayContainMatch(lower))

containsPatterns == <<"dotContains", "contains", "allergens">>

\* the "Contains:" block from pattern k on: a pattern whose first match has
\* "may" in the 5 characters before it is skipped (continue)
RECURSIVE detectContains(_, _, _, _)
RECURSIVE containsBlock(_, _, _, _, _)
containsBlock(text, lower, mayContain, k, match) ==
    IF match = NoMatch THEN detectContains(text, lower, mayContain, k + 1)
    ELSE LET from == IF match.index - 5 > 0 THEN match.index - 5 ELSE 0
             before == Substring(lower, from, match.index)
         IN IF Includes(before, kwMay)
            THEN detectContains(text, lower, mayContain, k + 1)
            ELSE [found |-> TRUE, start |-> match.end,
                  end |-> IF mayContain.found THEN mayContain.start
                          ELSE nextSectionOrEnd(text, lower, match.end)]

detectContains(text, lower, mayContain, k) ==
    IF k > Len(containsPatterns) THEN NotFound
    ELSE containsBlock(text, lower, mayContain, k, exec(containsPatterns[k], lower, 0))

\* the body of the "Ingredients:" loop for the match found
ingredientsBlock(text, lower, mayContain, contains, match) ==
    IF match = NoMatch THEN NotFound
    ELSE [found |-> TRUE, start |-> match.end,
          end |-> IF contains.found THEN contains.start
                  ELSE IF mayContain.found THEN mayContain.start
                  ELSE nextSectionOrEnd(text, lower, match.end)]

\* the "Ingredients:" block
detectIngredients(text, lower, mayContain, contains) ==
    ingredientsBlock(text, lower, mayContain, contains, exec("ingredients", lower, 0))

\* the text of a detected block; "" stands for the null of a block that
\* was not found (parseIngredientLabel only tests the texts for truthiness)
sectionText(text, block) ==
    IF block.found THEN Trim(Substring(text, block.start, block.end)) ELSE <<>>

\* SectionResult.boundaries: only the blocks that were found have a key
sectionBoundaries(ingredients, contains, mayContain) ==
    LET blocks == [ingredients |-> ingredients, contains |-> contains,
                   mayContain |-> mayContain]
        keys == {k \in {"ingredients", "contains", "mayContain"} : blocks[k].found}
    IN [k \in keys |-> [start |-> blocks[k].start, end |-> blocks[k].end]]

\* the SectionResult of the three blocks
sectionResult(text, ingredients, contains, mayContain) ==
    [ingredientsText |-> sectionText(text, ingredients),
     containsText |-> sectionText(text, contains),
     mayContainText |-> sectionText(text, mayContain),
     boundaries |-> sectionBoundaries(ingredients, contains, mayContain)]

\* detectSections once "May contain" and "Contains:" are decided
sectionsAfterContains(text, lower, mayContain, contains) ==
    sectionResult(text, detectIngredients(text, lower, mayContain, contains),
                  contains, mayContain)

\* detectSections once "May contain" is decided
sectionsAfterMayContain(text, lower, mayContain) ==
    sectionsAfterContains(text, lower, mayContain,
                          detectContains(text, lower, mayContain, 1))

sectionsOf(text, lower) ==
    sectionsAfterMayContain(text, lower, detectMayContain(text, lower))

detectSections(text) == sectionsOf(text, ToLower(text))

----------------------------------------------------------------------------
(* ingredientNormalizer.ts: splitIngredients, expandParentheticals,       *)
(* cleanIngredientToken, splitSimpleList                                  *)

\* t occurs in s at offset i, ignoring case (the i flag); t is lowercase
OccursAtCI(s, t, i) ==
    /\ i >= 0
    /\ i + Len(t) <= Len(s)
    /\ ToLower(SubSeq(s, i + 1, i + Len(t))) = t

kwAnd == <<"a","n","d">>
kwAndOr == <<"a","n","d","/","o","r">>
kwLessThan == <<"l","e","s","s"," ","t","h","a","n"," ">>
kwOrLess == <<"o","r"," ","l","e","s","s">>
kwOf == <<"o","f">>

\* /\band\b/i at offset p
reAnd(s, p) ==
    IF OccursAtCI(s, kwAnd, p) /\ wordBoundary(s, p) /\ wordBoundary(s, p + 3)
    THEN p + 3 ELSE -1

\* the separators of String.prototype.split
sepEnd(re, s, p) ==
    CASE re = "commaSemi" ->                     \* /[,;]/
            IF At(s, p) \in {",", ";"} THEN p + 1 ELSE -1
      [] re = "andOr" ->                         \* /\band[/]or\b|\band\b/i
            IF OccursAtCI(s, kwAndOr, p) /\ wordBoundary(s, p) /\ wordBoundary(s, p + 6)
            THEN p + 6
            ELSE reAnd(s, p)
      [] re = "listSep" ->                       \* /[,;]|\band\b/i
            IF At(s, p) \in {",", ";"} THEN p + 1 ELSE reAnd(s, p)

\* String.prototype.split: the pieces of s[from..] between the separators
RECURSIVE splitFrom(_, _, _)
splitFrom(re, s, from) ==
    LET hits == {p \in from..(Len(s) - 1) : sepEnd(re, s, p) # -1}
    IN IF hits = {} THEN <<SubSeq(s, from + 1, Len(s))>>
       ELSE <<SubSeq(s, from + 1, Min(hits))>> \o splitFrom(re, s, sepEnd(re, s, Min(hits)))

split(re, s) == splitFrom(re, s, 0)

\* the match of /([^,(]+?)\s*\(([^)]+)\)/ (or its bracket twin) that starts
\* at offset p: parent = s[p..q), the opening glyph at r, the closing at e
groupMatch(s, p, open, close, forbid) ==
    LET stops == {i \in (p + 1)..(Len(s) - 1) : At(s, i) \in forbid}
        r == IF stops = {} THEN -1 ELSE Min(stops)
        closes == {i \in (r + 1)..(Len(s) - 1) : At(s, i) = close}
        e == IF closes = {} THEN -1 ELSE Min(closes)
        qs == {i \in (p + 1)..r : \A j \in i..(r - 1) : IsSpace(At(s, j))}
    IN IF /\ p < Len(s)
          /\ At(s, p) \notin forbid
          /\ r # -1
          /\ At(s, r) = open
          /\ e > r + 1
       THEN [ok |-> TRUE, q |-> Min(qs), r |-> r, e |-> e]
       ELSE [ok |-> FALSE, q |-> 0, r |-> 0, e |-> 0]

\* the global replace with "${parent.trim()}, ${inside}", from offset from:
\* the text before the leftmost match is kept, the match is rewritten
RECURSIVE expandFrom(_, _, _, _, _)
expandFrom(s, from, open, close, forbid) ==
    LET hits == {p \in from..(Len(s) - 1) : groupMatch(s, p, open, close, forbid).ok}
    IN IF hits = {} THEN SubSeq(s, from + 1, Len(s))
       ELSE LET p == Min(hits)
                m == groupMatch(s, p, open, close, forbid)
            IN SubSeq(s, from + 1, p)
                 \o Trim(SubSeq(s, p + 1, m.q)) \o <<",", " ">> \o SubSeq(s, m.r + 2, m.e)
                 \o expandFrom(s, m.e + 1, open, close, forbid)

expandParentheticals(text) ==
    LET round == expandFrom(text, 0, "(", ")", {",", "("})
    IN expandFrom(round, 0, "[", "]", {",", "[", "]"})

\* the class [.\s*<bullet><middle dot>-] of cleanIngredientToken
IsNoise(c) == IsSpace(c) \/ c \in {".", "*", "BULLET", "MIDDOT", "-"}

RECURSIVE stripNoiseLeft(_)
stripNoiseLeft(s) == IF s # <<>> /\ IsNoise(Head(s)) THEN stripNoiseLeft(Tail(s)) ELSE s
RECURSIVE stripNoiseRight(_)
stripNoiseRight(s) ==
    IF s # <<>> /\ IsNoise(s[Len(s)]) THEN stripNoiseRight(SubSeq(s, 1, Len(s) - 1)) ELSE s

IsDigits(w) == w # <<>> /\ \A i \in 1..Len(w) : w[i] \in DigitChars

\* w is \d+(\.\d+)?
IsNumber(w) ==
    \/ IsDigits(w)
    \/ \E k \in 2..(Len(w) - 1) :
         w[k] = "." /\ IsDigits(SubSeq(w, 1, k - 1)) /\ IsDigits(SubSeq(w, k + 1, Len(w)))

\* u is \s*\d+(\.\d+)?%?\s*
IsPercentTail(u) ==
    LET v == Trim(u)
        w == IF v # <<>> /\ v[Len(v)] = "%" THEN SubSeq(v, 1, Len(v) - 1) ELSE v
    IN IsNumber(w)

\* .replace(/\s*\d+(\.\d+)?%?\s*$/, ""): the leftmost match is cut
stripPercentTail(s) ==
    LET hits == {p \in 0..(Len(s) - 1) : IsPercentTail(SubSeq(s, p + 1, Len(s)))}
    IN IF hits = {} THEN s ELSE SubSeq(s, 1, Min(hits))

\* \d+ from offset i (greedy): the offset after the digits
RECURSIVE skipDigits(_, _)
skipDigits(s, i) == IF At(s, i) \in DigitChars THEN skipDigits(s, i + 1) ELSE i

\* \d+(\.\d+)?%?\s* from offset i, -1 when no digit stands at i
numberEnd(s, i) ==
    IF At(s, i) \notin DigitChars THEN -1
    ELSE LET a == skipDigits(s, i)
             b == IF At(s, a) = "." /\ At(s, a + 1) \in DigitChars
                  THEN skipDigits(s, a + 1) ELSE a
             c == IF At(s, b) = "%" THEN b + 1 ELSE b
         IN skipSpaces(s, c)

\* (of\s*)? from offset i
optionalOf(s, i) == IF OccursAtCI(s, kwOf, i) THEN skipSpaces(s, i + Len(kwOf)) ELSE i

\* .replace(/^less than \d+(\.\d+)?%?\s*(of\s*)?/i, "")
stripLessThan(s) ==
    IF OccursAtCI(s, kwLessThan, 0) /\ numberEnd(s, Len(kwLessThan)) # -1
    THEN SubSeq(s, optionalOf(s, numberEnd(s, Len(kwLessThan))) + 1, Len(s))
    ELSE s

\* .replace(/^\d+(\.\d+)?%?\s*or less\s*(of\s*)?[:.]?\s*/i, "")
stripOrLess(s) ==
    LET a == numberEnd(s, 0) IN
    IF a # -1 /\ OccursAtCI(s, kwOrLess, a)
    THEN LET b == optionalOf(s, skipSpaces(s, a + Len(kwOrLess)))
             c == IF At(s, b) \in {":", "."} THEN b + 1 ELSE b
         IN SubSeq(s, skipSpaces(s, c) + 1, Len(s))
    ELSE s

cleanIngredientToken(token) ==
    ToLower(Trim(collapseSpaces(
        stripOrLess(stripLessThan(
            stripPercentTail(stripNoiseRight(stripNoiseLeft(token))))))))

\* the strings of a list that pass .filter(Boolean) / length > 0
NonEmpty(ss) == SelectSeq(ss, LAMBDA x : x # <<>>)

\* the inner loop of splitIngredients over one comma-separated part
cleanSubParts(part) ==
    LET andOrParts == split("andOr", part)
    IN NonEmpty([i \in 1..Len(andOrParts) |-> cleanIngredientToken(andOrParts[i])])

splitIngredients(text) ==
    LET expanded == expandParentheticals(text)
        pieces == split("commaSemi", expanded)
        parts == NonEmpty([i \in 1..Len(pieces) |-> Trim(pieces[i])])
    IN Concat([i \in 1..Len(parts) |-> cleanSubParts(parts[i])])

MaxStatementLength == 50

splitSimpleList(text) ==
    LET pieces == split("listSep", text)
        items == [i \in 1..Len(pieces) |-> ToLower(Trim(pieces[i]))]
    IN SelectSeq(items, LAMBDA x : Len(x) > 0 /\ Len(x) < MaxStatementLength)

----------------------------------------------------------------------------
(* ingredientNormalizer.ts: parseIngredientLabel *)

\* the ParsedLabel built from the normalized text and its sections
parsedLabelOf(normalizedText, sections, ingredientsRaw) ==
    [ingredients |-> splitIngredients(ingredientsRaw),
     ingredientsRawText |-> ingredientsRaw,
     containsStatements |-> IF sections.containsText # <<>>
                            THEN splitSimpleList(sections.containsText) ELSE <<>>,
     mayContainStatements |-> IF sections.mayContainText # <<>>
                              THEN splitSimpleList(sections.mayContainText) ELSE <<>>,
     normalizedText |-> normalizedText,
     sections |-> sections.boundaries]

\* sections.ingredientsText || normalizedText
ingredientsRawOf(normalizedText, sections) ==
    IF sections.ingredientsText # <<>> THEN sections.ingredientsText ELSE normalizedText

parseSections(normalizedText, sections) ==
    parsedLabelOf(normalizedText, sections, ingredientsRawOf(normalizedText, sections))

parseNormalized(normalizedText) ==
    parseSections(normalizedText, detectSections(normalizedText))

parseIngredientLabel(text) == parseNormalized(normalizeText(text))

----------------------------------------------------------------------------
(* dietaryDatabase.ts: DIETARY_RULES *)

\* DIETARY_RULES["Vegan"]
ruleVegan ==
    [key |-> <<"V","e","g","a","n">>,
     label |-> <<"V","e","g","a","n">>,
     violationTerms |-> <<
        <<"m","i","l","k">>, <<"c","r","e","a","m">>, <<"b","u","t","t","e","r">>,
        <<"c","h","e","e","s","e">>, <<"w","h","e","y">>, <<"c","a","s","e","i","n">>,
        <<"c","a","s","e","i","n","a","t","e">>, <<"l","a","c","t","o","s","e">>,
        <<"y","o","g","u","r","t">>, <<"y","o","g","h","u","r","t">>, <<"g","h","e","e">>,
        <<"b","u","t","t","e","r","m","i","l","k">>, <<"c","u","s","t","a","r","d">>,
        <<"i","c","e"," ","c","r","e","a","m">>, <<"g","e","l","a","t","o">>,
        <<"p","a","n","e","e","r">>, <<"k","e","f","i","r">>, <<"c","u","r","d","s">>,
        <<"s","o","u","r"," ","c","r","e","a","m">>,
        <<"c","r","e","a","m"," ","c","h","e","e","s","e">>, <<"r","i","c","o","t","t","a">>,
        <<"m","o","z","z","a","r","e","l","l","a">>, <<"p","a","r","m","e","s","a","n">>,
        <<"c","h","e","d","d","a","r">>, <<"l","a","c","t","a","l","b","u","m","i","n">>,
        <<"l","a","c","t","o","g","l","o","b","u","l","i","n">>,
        <<"w","h","e","y"," ","p","r","o","t","e","i","n">>,
        <<"m","i","l","k"," ","p","o","w","d","e","r">>,
        <<"m","i","l","k"," ","s","o","l","i","d","s">>, <<"b","u","t","t","e","r","f","a","t">>,
        <<"h","a","l","f"," ","a","n","d"," ","h","a","l","f">>, <<"n","o","u","g","a","t">>,
        <<"e","g","g">>, <<"e","g","g","s">>, <<"e","g","g"," ","w","h","i","t","e">>,
        <<"e","g","g"," ","y","o","l","k">>, <<"a","l","b","u","m","i","n">>,
        <<"a","l","b","u","m","e","n">>, <<"m","a","y","o","n","n","a","i","s","e">>,
        <<"m","a","y","o">>, <<"m","e","r","i","n","g","u","e">>,
        <<"l","y","s","o","z","y","m","e">>, <<"o","v","a","l","b","u","m","i","n">>,
        <<"o","v","o","m","u","c","o","i","d">>, <<"e","g","g","n","o","g">>, <<"b","e","e","f">>,
        <<"p","o","r","k">>, <<"c","h","i","c","k","e","n">>, <<"t","u","r","k","e","y">>,
        <<"l","a","m","b">>, <<"v","e","a","l">>, <<"d","u","c","k">>, <<"g","o","o","s","e">>,
        <<"v","e","n","i","s","o","n">>, <<"b","i","s","o","n">>, <<"b","a","c","o","n">>,
        <<"h","a","m">>, <<"s","a","u","s","a","g","e">>, <<"s","a","l","a","m","i">>,
        <<"p","e","p","p","e","r","o","n","i">>, <<"p","r","o","s","c","i","u","t","t","o">>,
        <<"c","h","o","r","i","z","o">>, <<"j","e","r","k","y">>, <<"m","e","a","t">>,
        <<"m","e","a","t"," ","e","x","t","r","a","c","t">>,
        <<"m","e","a","t"," ","b","r","o","t","h">>, <<"b","o","n","e"," ","b","r","o","t","h">>,
        <<"b","o","n","e"," ","m","a","r","r","o","w">>, <<"l","a","r","d">>,
        <<"t","a","l","l","o","w">>, <<"s","u","e","t">>, <<"d","r","i","p","p","i","n","g">>,
        <<"s","c","h","m","a","l","t","z">>, <<"f","i","s","h">>, <<"s","a","l","m","o","n">>,
        <<"t","u","n","a">>, <<"c","o","d">>, <<"s","h","r","i","m","p">>, <<"p","r","a","w","n">>,
        <<"c","r","a","b">>, <<"l","o","b","s","t","e","r">>, <<"c","l","a","m">>,
        <<"m","u","s","s","e","l">>, <<"o","y","s","t","e","r">>, <<"s","c","a","l","l","o","p">>,
        <<"s","q","u","i","d">>, <<"c","a","l","a","m","a","r","i">>,
        <<"a","n","c","h","o","v","y">>, <<"a","n","c","h","o","v","i","e","s">>,
        <<"s","a","r","d","i","n","e">>, <<"f","i","s","h"," ","s","a","u","c","e">>,
        <<"o","y","s","t","e","r"," ","s","a","u","c","e">>, <<"f","i","s","h"," ","o","i","l">>,
        <<"s","u","r","i","m","i">>, <<"g","e","l","a","t","i","n">>,
        <<"g","e","l","a","t","i","n","e">>, <<"c","o","l","l","a","g","e","n">>,
        <<"i","s","i","n","g","l","a","s","s">>, <<"h","o","n","e","y">>,
        <<"b","e","e","s","w","a","x">>, <<"r","o","y","a","l"," ","j","e","l","l","y">>,
        <<"p","r","o","p","o","l","i","s">>, <<"c","a","r","m","i","n","e">>,
        <<"c","o","c","h","i","n","e","a","l">>, <<"s","h","e","l","l","a","c">>,
        <<"l","a","n","o","l","i","n">>, <<"p","e","p","s","i","n">>, <<"r","e","n","n","e","t">>,
        <<"c","a","s","t","o","r">>, <<"v","i","t","a","m","i","n"," ","d","3">>,
        <<"o","m","e","g","a","-","3">> >>,
     cautionTerms |-> <<
        <<"n","a","t","u","r","a","l"," ","f","l","a","v","o","r","s">>,
        <<"n","a","t","u","r","a","l"," ","f","l","a","v","o","u","r","s">>,
        <<"n","a","t","u","r","a","l"," ","f","l","a","v","o","r">>,
        <<"a","r","t","i","f","i","c","i","a","l"," ","f","l","a","v","o","r","s">>,
        <<"m","o","n","o"," ","a","n","d"," ","d","i","g","l","y","c","e","r","i","d","e","s">>,
        <<"m","o","n","o","-","d","i","g","l","y","c","e","r","i","d","e">>,
        <<"l","e","c","i","t","h","i","n">>, <<"v","i","t","a","m","i","n"," ","d">>,
        <<"s","t","e","a","r","i","c"," ","a","c","i","d">>, <<"g","l","y","c","e","r","i","n">>,
        <<"g","l","y","c","e","r","i","n","e">>, <<"l","-","c","y","s","t","e","i","n","e">>,
        <<"c","o","n","f","e","c","t","i","o","n","e","r","'","s"," ","g","l","a","z","e">>,
        <<"o","l","e","i","c"," ","a","c","i","d">>,
        <<"p","a","l","m","i","t","i","c"," ","a","c","i","d">>,
        <<"c","a","p","r","i","c"," ","a","c","i","d">> >>,
     reasonTemplate |-> "not vegan (animal-derived)"]

\* DIETARY_RULES["Vegetarian"]
ruleVegetarian ==
    [key |-> <<"V","e","g","e","t","a","r","i","a","n">>,
     label |-> <<"V","e","g","e","t","a","r","i","a","n">>,
     violationTerms |-> <<
        <<"b","e","e","f">>, <<"p","o","r","k">>, <<"c","h","i","c","k","e","n">>,
        <<"t","u","r","k","e","y">>, <<"l","a","m","b">>, <<"v","e","a","l">>, <<"d","u","c","k">>,
        <<"g","o","o","s","e">>, <<"v","e","n","i","s","o","n">>, <<"b","i","s","o","n">>,
        <<"b","a","c","o","n">>, <<"h","a","m">>, <<"s","a","u","s","a","g","e">>,
        <<"s","a","l","a","m","i">>, <<"p","e","p","p","e","r","o","n","i">>,
        <<"p","r","o","s","c","i","u","t","t","o">>, <<"c","h","o","r","i","z","o">>,
        <<"j","e","r","k","y">>, <<"m","e","a","t">>,
        <<"m","e","a","t"," ","e","x","t","r","a","c","t">>,
        <<"m","e","a","t"," ","b","r","o","t","h">>, <<"b","o","n","e"," ","b","r","o","t","h">>,
        <<"b","o","n","e"," ","m","a","r","r","o","w">>, <<"l","a","r","d">>,
        <<"t","a","l","l","o","w">>, <<"s","u","e","t">>, <<"d","r","i","p","p","i","n","g">>,
        <<"s","c","h","m","a","l","t","z">>, <<"f","i","s","h">>, <<"s","a","l","m","o","n">>,
        <<"t","u","n","a">>, <<"c","o","d">>, <<"s","h","r","i","m","p">>, <<"p","r","a","w","n">>,
        <<"c","r","a","b">>, <<"l","o","b","s","t","e","r">>, <<"c","l","a","m">>,
        <<"m","u","s","s","e","l">>, <<"o","y","s","t","e","r">>, <<"s","c","a","l","l","o","p">>,
        <<"s","q","u","i","d">>, <<"c","a","l","a","m","a","r","i">>,
        <<"a","n","c","h","o","v","y">>, <<"a","n","c","h","o","v","i","e","s">>,
        <<"s","a","r","d","i","n","e">>, <<"f","i","s","h"," ","s","a","u","c","e">>,
        <<"o","y","s","t","e","r"," ","s","a","u","c","e">>, <<"f","i","s","h"," ","o","i","l">>,
        <<"s","u","r","i","m","i">>, <<"g","e","l","a","t","i","n">>,
        <<"g","e","l","a","t","i","n","e">>, <<"i","s","i","n","g","l","a","s","s">>,
        <<"r","e","n","n","e","t">>, <<"c","a","r","m","i","n","e">>,
        <<"c","o","c","h","i","n","e","a","l">> >>,
     cautionTerms |-> <<
        <<"n","a","t","u","r","a","l"," ","f","l","a","v","o","r","s">>,
        <<"n","a","t","u","r","a","l"," ","f","l","a","v","o","u","r","s">>,
        <<"w","o","r","c","e","s","t","e","r","s","h","i","r","e"," ","s","a","u","c","e">>,
        <<"c","a","e","s","a","r"," ","d","r","e","s","s","i","n","g">> >>,
     reasonTemplate |-> "not vegetarian (contains meat/fish)"]

\* DIETARY_RULES["Gluten-free"]
ruleGlutenFree ==
    [key |-> <<"G","l","u","t","e","n","-","f","r","e","e">>,
     label |-> <<"G","l","u","t","e","n","-","F","r","e","e">>,
     violationTerms |-> <<
        <<"w","h","e","a","t">>, <<"w","h","e","a","t"," ","f","l","o","u","r">>,
        <<"w","h","o","l","e"," ","w","h","e","a","t">>,
        <<"w","h","e","a","t"," ","s","t","a","r","c","h">>,
        <<"w","h","e","a","t"," ","g","e","r","m">>, <<"w","h","e","a","t"," ","b","r","a","n">>,
        <<"w","h","e","a","t"," ","g","l","u","t","e","n">>,
        <<"w","h","e","a","t"," ","p","r","o","t","e","i","n">>, <<"g","l","u","t","e","n">>,
        <<"v","i","t","a","l"," ","w","h","e","a","t"," ","g","l","u","t","e","n">>,
        <<"e","n","r","i","c","h","e","d"," ","f","l","o","u","r">>,
        <<"b","l","e","a","c","h","e","d"," ","f","l","o","u","r">>,
        <<"u","n","b","l","e","a","c","h","e","d"," ","f","l","o","u","r">>,
        <<"a","l","l","-","p","u","r","p","o","s","e"," ","f","l","o","u","r">>,
        <<"a","l","l"," ","p","u","r","p","o","s","e"," ","f","l","o","u","r">>,
        <<"b","r","e","a","d"," ","f","l","o","u","r">>,
        <<"c","a","k","e"," ","f","l","o","u","r">>,
        <<"p","a","s","t","r","y"," ","f","l","o","u","r">>,
        <<"s","e","l","f","-","r","i","s","i","n","g"," ","f","l","o","u","r">>,
        <<"s","e","m","o","l","i","n","a">>, <<"d","u","r","u","m">>,
        <<"d","u","r","u","m"," ","w","h","e","a","t">>, <<"s","p","e","l","t">>,
        <<"k","a","m","u","t">>, <<"f","a","r","i","n","a">>, <<"f","a","r","r","o">>,
        <<"e","i","n","k","o","r","n">>, <<"e","m","m","e","r">>,
        <<"t","r","i","t","i","c","a","l","e">>, <<"b","u","l","g","u","r">>,
        <<"c","o","u","s","c","o","u","s">>, <<"s","e","i","t","a","n">>,
        <<"b","a","r","l","e","y">>, <<"b","a","r","l","e","y"," ","m","a","l","t">>,
        <<"m","a","l","t">>, <<"m","a","l","t"," ","e","x","t","r","a","c","t">>,
        <<"m","a","l","t"," ","s","y","r","u","p">>,
        <<"m","a","l","t"," ","f","l","a","v","o","r","i","n","g">>,
        <<"m","a","l","t"," ","v","i","n","e","g","a","r">>,
        <<"b","r","e","w","e","r","'","s"," ","y","e","a","s","t">>, <<"r","y","e">>,
        <<"r","y","e"," ","f","l","o","u","r">>,
        <<"p","u","m","p","e","r","n","i","c","k","e","l">>,
        <<"b","r","e","a","d"," ","c","r","u","m","b","s">>,
        <<"b","r","e","a","d","c","r","u","m","b","s">>, <<"p","a","n","k","o">>,
        <<"c","r","a","c","k","e","r"," ","m","e","a","l">>,
        <<"g","r","a","h","a","m"," ","f","l","o","u","r">>, <<"m","a","t","z","o">>,
        <<"m","a","t","z","o","h">>, <<"p","a","s","t","a">>, <<"n","o","o","d","l","e","s">>,
        <<"o","r","z","o">>, <<"r","o","u","x">>,
        <<"h","y","d","r","o","l","y","z","e","d"," ","w","h","e","a","t"," ","p","r","o","t","e","i","n">>,
        <<"m","o","d","i","f","i","e","d"," ","w","h","e","a","t"," ","s","t","a","r","c","h">> >>,
     cautionTerms |-> <<
        <<"m","o","d","i","f","i","e","d"," ","f","o","o","d"," ","s","t","a","r","c","h">>,
        <<"m","o","d","i","f","i","e","d"," ","s","t","a","r","c","h">>,
        <<"n","a","t","u","r","a","l"," ","f","l","a","v","o","r","s">>,
        <<"n","a","t","u","r","a","l"," ","f","l","a","v","o","u","r","s">>,
        <<"c","a","r","a","m","e","l"," ","c","o","l","o","r">>, <<"d","e","x","t","r","i","n">>,
        <<"o","a","t","s">>, <<"o","a","t">>, <<"o","a","t"," ","f","l","o","u","r">>,
        <<"s","o","y"," ","s","a","u","c","e">> >>,
     reasonTemplate |-> "contains gluten"]

\* DIETARY_RULES["Dairy-free"]
ruleDairyFree ==
    [key |-> <<"D","a","i","r","y","-","f","r","e","e">>,
     label |-> <<"D","a","i","r","y","-","F","r","e","e">>,
     violationTerms |-> <<
        <<"m","i","l","k">>, <<"c","r","e","a","m">>, <<"b","u","t","t","e","r">>,
        <<"c","h","e","e","s","e">>, <<"w","h","e","y">>, <<"c","a","s","e","i","n">>,
        <<"c","a","s","e","i","n","a","t","e">>, <<"l","a","c","t","o","s","e">>,
        <<"y","o","g","u","r","t">>, <<"y","o","g","h","u","r","t">>, <<"g","h","e","e">>,
        <<"b","u","t","t","e","r","m","i","l","k">>, <<"c","u","s","t","a","r","d">>,
        <<"i","c","e"," ","c","r","e","a","m">>, <<"g","e","l","a","t","o">>,
        <<"p","a","n","e","e","r">>, <<"k","e","f","i","r">>, <<"c","u","r","d","s">>,
        <<"s","o","u","r"," ","c","r","e","a","m">>,
        <<"c","r","e","a","m"," ","c","h","e","e","s","e">>, <<"r","i","c","o","t","t","a">>,
        <<"m","o","z","z","a","r","e","l","l","a">>, <<"p","a","r","m","e","s","a","n">>,
        <<"c","h","e","d","d","a","r">>, <<"l","a","c","t","a","l","b","u","m","i","n">>,
        <<"l","a","c","t","o","g","l","o","b","u","l","i","n">>,
        <<"w","h","e","y"," ","p","r","o","t","e","i","n">>,
        <<"m","i","l","k"," ","p","o","w","d","e","r">>,
        <<"m","i","l","k"," ","s","o","l","i","d","s">>, <<"b","u","t","t","e","r","f","a","t">>,
        <<"h","a","l","f"," ","a","n","d"," ","h","a","l","f">>,
        <<"s","o","d","i","u","m"," ","c","a","s","e","i","n","a","t","e">>,
        <<"c","a","l","c","i","u","m"," ","c","a","s","e","i","n","a","t","e">>,
        <<"n","o","n","f","a","t"," ","m","i","l","k">>, <<"s","k","i","m"," ","m","i","l","k">>,
        <<"w","h","o","l","e"," ","m","i","l","k">>,
        <<"m","i","l","k"," ","p","r","o","t","e","i","n">>,
        <<"c","o","n","d","e","n","s","e","d"," ","m","i","l","k">>,
        <<"e","v","a","p","o","r","a","t","e","d"," ","m","i","l","k">>,
        <<"d","r","y"," ","m","i","l","k">>, <<"d","r","i","e","d"," ","m","i","l","k">> >>,
     cautionTerms |-> <<
        <<"n","a","t","u","r","a","l"," ","f","l","a","v","o","r","s">>,
        <<"n","a","t","u","r","a","l"," ","f","l","a","v","o","u","r","s">>,
        <<"c","a","r","a","m","e","l"," ","c","o","l","o","r">>,
        <<"c","a","r","a","m","e","l"," ","c","o","l","o","u","r">> >>,
     reasonTemplate |-> "contains dairy"]

\* DIETARY_RULES["Nut-free"]
ruleNutFree ==
    [key |-> <<"N","u","t","-","f","r","e","e">>,
     label |-> <<"N","u","t","-","F","r","e","e">>,
     violationTerms |-> <<
        <<"p","e","a","n","u","t">>, <<"p","e","a","n","u","t","s">>,
        <<"p","e","a","n","u","t"," ","b","u","t","t","e","r">>,
        <<"p","e","a","n","u","t"," ","o","i","l">>,
        <<"p","e","a","n","u","t"," ","f","l","o","u","r">>, <<"a","l","m","o","n","d">>,
        <<"a","l","m","o","n","d","s">>, <<"a","l","m","o","n","d"," ","b","u","t","t","e","r">>,
        <<"a","l","m","o","n","d"," ","m","i","l","k">>,
        <<"a","l","m","o","n","d"," ","f","l","o","u","r">>,
        <<"a","l","m","o","n","d"," ","e","x","t","r","a","c","t">>,
        <<"a","l","m","o","n","d"," ","p","a","s","t","e">>, <<"m","a","r","z","i","p","a","n">>,
        <<"c","a","s","h","e","w">>, <<"c","a","s","h","e","w","s">>,
        <<"c","a","s","h","e","w"," ","b","u","t","t","e","r">>, <<"w","a","l","n","u","t">>,
        <<"w","a","l","n","u","t","s">>, <<"p","e","c","a","n">>, <<"p","e","c","a","n","s">>,
        <<"p","i","s","t","a","c","h","i","o">>, <<"p","i","s","t","a","c","h","i","o","s">>,
        <<"b","r","a","z","i","l"," ","n","u","t">>,
        <<"b","r","a","z","i","l"," ","n","u","t","s">>, <<"h","a","z","e","l","n","u","t">>,
        <<"h","a","z","e","l","n","u","t","s">>, <<"f","i","l","b","e","r","t">>,
        <<"f","i","l","b","e","r","t","s">>, <<"m","a","c","a","d","a","m","i","a">>,
        <<"m","a","c","a","d","a","m","i","a"," ","n","u","t">>,
        <<"m","a","c","a","d","a","m","i","a"," ","n","u","t","s">>,
        <<"p","i","n","e"," ","n","u","t">>, <<"p","i","n","e"," ","n","u","t","s">>,
        <<"p","i","g","n","o","l","i">>, <<"p","r","a","l","i","n","e">>,
        <<"p","r","a","l","i","n","e","s">>, <<"g","i","a","n","d","u","j","a">>,
        <<"n","u","t","e","l","l","a">>, <<"n","u","t"," ","b","u","t","t","e","r">>,
        <<"n","u","t"," ","o","i","l">>, <<"n","u","t"," ","p","a","s","t","e">>,
        <<"n","u","t"," ","e","x","t","r","a","c","t">>, <<"n","u","t"," ","m","e","a","l">>,
        <<"n","u","t"," ","f","l","o","u","r">>, <<"m","i","x","e","d"," ","n","u","t","s">>,
        <<"c","h","e","s","t","n","u","t">>, <<"c","h","e","s","t","n","u","t","s">>,
        <<"g","r","o","u","n","d","n","u","t","s">>,
        <<"a","r","a","c","h","i","s"," ","o","i","l">>, <<"n","o","u","g","a","t">> >>,
     cautionTerms |-> <<
        <<"c","o","c","o","n","u","t">>,
        <<"n","a","t","u","r","a","l"," ","f","l","a","v","o","r","s">>,
        <<"n","a","t","u","r","a","l"," ","f","l","a","v","o","u","r","s">> >>,
     reasonTemplate |-> "contains nuts"]

\* DIETARY_RULES["Keto / Low-carb"]
ruleKetoLowCarb ==
    [key |-> <<"K","e","t","o"," ","/"," ","L","o","w","-","c","a","r","b">>,
     label |-> <<"K","e","t","o"," ","/"," ","L","o","w","-","C","a","r","b">>,
     violationTerms |-> <<
        <<"s","u","g","a","r">>, <<"c","a","n","e"," ","s","u","g","a","r">>,
        <<"b","r","o","w","n"," ","s","u","g","a","r">>,
        <<"p","o","w","d","e","r","e","d"," ","s","u","g","a","r">>,
        <<"c","o","n","f","e","c","t","i","o","n","e","r","s"," ","s","u","g","a","r">>,
        <<"t","u","r","b","i","n","a","d","o"," ","s","u","g","a","r">>,
        <<"r","a","w"," ","s","u","g","a","r">>,
        <<"h","i","g","h"," ","f","r","u","c","t","o","s","e"," ","c","o","r","n"," ","s","y","r","u","p">>,
        <<"h","f","c","s">>, <<"c","o","r","n"," ","s","y","r","u","p">>, <<"a","g","a","v","e">>,
        <<"a","g","a","v","e"," ","n","e","c","t","a","r">>,
        <<"a","g","a","v","e"," ","s","y","r","u","p">>, <<"h","o","n","e","y">>,
        <<"m","a","p","l","e"," ","s","y","r","u","p">>, <<"m","o","l","a","s","s","e","s">>,
        <<"t","r","e","a","c","l","e">>, <<"r","i","c","e"," ","s","y","r","u","p">>,
        <<"b","r","o","w","n"," ","r","i","c","e"," ","s","y","r","u","p">>,
        <<"b","a","r","l","e","y"," ","m","a","l","t"," ","s","y","r","u","p">>,
        <<"d","e","x","t","r","o","s","e">>, <<"g","l","u","c","o","s","e">>,
        <<"g","l","u","c","o","s","e"," ","s","y","r","u","p">>,
        <<"f","r","u","c","t","o","s","e">>, <<"s","u","c","r","o","s","e">>,
        <<"m","a","l","t","o","s","e">>, <<"g","a","l","a","c","t","o","s","e">>,
        <<"w","h","e","a","t"," ","f","l","o","u","r">>,
        <<"a","l","l","-","p","u","r","p","o","s","e"," ","f","l","o","u","r">>,
        <<"b","r","e","a","d"," ","f","l","o","u","r">>,
        <<"e","n","r","i","c","h","e","d"," ","f","l","o","u","r">>,
        <<"w","h","o","l","e"," ","w","h","e","a","t"," ","f","l","o","u","r">>,
        <<"r","i","c","e">>, <<"w","h","i","t","e"," ","r","i","c","e">>,
        <<"b","r","o","w","n"," ","r","i","c","e">>, <<"r","i","c","e"," ","f","l","o","u","r">>,
        <<"c","o","r","n"," ","s","t","a","r","c","h">>,
        <<"c","o","r","n","s","t","a","r","c","h">>, <<"c","o","r","n"," ","f","l","o","u","r">>,
        <<"c","o","r","n","m","e","a","l">>,
        <<"p","o","t","a","t","o"," ","s","t","a","r","c","h">>,
        <<"p","o","t","a","t","o"," ","f","l","o","u","r">>, <<"t","a","p","i","o","c","a">>,
        <<"t","a","p","i","o","c","a"," ","s","t","a","r","c","h">>,
        <<"a","r","r","o","w","r","o","o","t">>,
        <<"b","r","e","a","d"," ","c","r","u","m","b","s">>,
        <<"b","r","e","a","d","c","r","u","m","b","s">>, <<"p","a","n","k","o">>,
        <<"p","a","s","t","a">>, <<"n","o","o","d","l","e","s">>,
        <<"c","o","u","s","c","o","u","s">>, <<"m","a","l","t","o","d","e","x","t","r","i","n">> >>,
     cautionTerms |-> <<
        <<"m","o","d","i","f","i","e","d"," ","f","o","o","d"," ","s","t","a","r","c","h">>,
        <<"m","o","d","i","f","i","e","d"," ","s","t","a","r","c","h">>,
        <<"n","a","t","u","r","a","l"," ","s","w","e","e","t","e","n","e","r">>,
        <<"f","r","u","i","t"," ","j","u","i","c","e"," ","c","o","n","c","e","n","t","r","a","t","e">>,
        <<"e","v","a","p","o","r","a","t","e","d"," ","c","a","n","e"," ","j","u","i","c","e">>,
        <<"i","n","v","e","r","t"," ","s","u","g","a","r">>,
        <<"o","a","t"," ","f","l","o","u","r">>, <<"o","a","t","s">> >>,
     reasonTemplate |-> "high in carbohydrates (not keto-friendly)"]

\* DIETARY_RULES["Low-sodium"]
ruleLowSodium ==
    [key |-> <<"L","o","w","-","s","o","d","i","u","m">>,
     label |-> <<"L","o","w","-","S","o","d","i","u","m">>,
     violationTerms |-> <<
        <<"s","a","l","t">>, <<"s","e","a"," ","s","a","l","t">>,
        <<"t","a","b","l","e"," ","s","a","l","t">>,
        <<"k","o","s","h","e","r"," ","s","a","l","t">>,
        <<"s","o","d","i","u","m"," ","c","h","l","o","r","i","d","e">>, <<"m","s","g">>,
        <<"m","o","n","o","s","o","d","i","u","m"," ","g","l","u","t","a","m","a","t","e">>,
        <<"s","o","d","i","u","m"," ","n","i","t","r","a","t","e">>,
        <<"s","o","d","i","u","m"," ","n","i","t","r","i","t","e">>,
        <<"s","o","d","i","u","m"," ","b","e","n","z","o","a","t","e">>,
        <<"s","o","d","i","u","m"," ","p","h","o","s","p","h","a","t","e">>,
        <<"s","o","d","i","u","m"," ","b","i","c","a","r","b","o","n","a","t","e">>,
        <<"b","a","k","i","n","g"," ","s","o","d","a">>, <<"s","o","y"," ","s","a","u","c","e">>,
        <<"t","a","m","a","r","i">>, <<"s","h","o","y","u">>,
        <<"f","i","s","h"," ","s","a","u","c","e">>, <<"b","o","u","i","l","l","o","n">>,
        <<"b","r","o","t","h">>, <<"s","t","o","c","k">>,
        <<"w","o","r","c","e","s","t","e","r","s","h","i","r","e"," ","s","a","u","c","e">> >>,
     cautionTerms |-> <<
        <<"s","e","a","s","o","n","i","n","g">>,
        <<"s","e","a","s","o","n","i","n","g"," ","b","l","e","n","d">>,
        <<"s","p","i","c","e"," ","b","l","e","n","d">>,
        <<"n","a","t","u","r","a","l"," ","f","l","a","v","o","r","s">>,
        <<"h","y","d","r","o","l","y","z","e","d"," ","p","r","o","t","e","i","n">> >>,
     reasonTemplate |-> "high in sodium"]

\* DIETARY_RULES["Pescatarian"]
rulePescatarian ==
    [key |-> <<"P","e","s","c","a","t","a","r","i","a","n">>,
     label |-> <<"P","e","s","c","a","t","a","r","i","a","n">>,
     violationTerms |-> <<
        <<"b","e","e","f">>, <<"p","o","r","k">>, <<"c","h","i","c","k","e","n">>,
        <<"t","u","r","k","e","y">>, <<"l","a","m","b">>, <<"v","e","a","l">>, <<"d","u","c","k">>,
        <<"g","o","o","s","e">>, <<"v","e","n","i","s","o","n">>, <<"b","i","s","o","n">>,
        <<"b","a","c","o","n">>, <<"h","a","m">>, <<"s","a","u","s","a","g","e">>,
        <<"s","a","l","a","m","i">>, <<"p","e","p","p","e","r","o","n","i">>,
        <<"p","r","o","s","c","i","u","t","t","o">>, <<"c","h","o","r","i","z","o">>,
        <<"j","e","r","k","y">>, <<"m","e","a","t">>,
        <<"m","e","a","t"," ","e","x","t","r","a","c","t">>,
        <<"m","e","a","t"," ","b","r","o","t","h">>, <<"b","o","n","e"," ","b","r","o","t","h">>,
        <<"l","a","r","d">>, <<"t","a","l","l","o","w">>, <<"s","u","e","t">>,
        <<"d","r","i","p","p","i","n","g">>, <<"s","c","h","m","a","l","t","z">> >>,
     cautionTerms |-> <<
        <<"n","a","t","u","r","a","l"," ","f","l","a","v","o","r","s">>,
        <<"n","a","t","u","r","a","l"," ","f","l","a","v","o","u","r","s">>,
        <<"g","e","l","a","t","i","n">>, <<"g","e","l","a","t","i","n","e">> >>,
     reasonTemplate |-> "contains meat/poultry (not pescatarian)"]

\* DIETARY_RULES["Paleo"]
rulePaleo ==
    [key |-> <<"P","a","l","e","o">>,
     label |-> <<"P","a","l","e","o">>,
     violationTerms |-> <<
        <<"w","h","e","a","t">>, <<"w","h","e","a","t"," ","f","l","o","u","r">>,
        <<"r","i","c","e">>, <<"c","o","r","n">>, <<"o","a","t","s">>, <<"b","a","r","l","e","y">>,
        <<"r","y","e">>, <<"q","u","i","n","o","a">>, <<"b","u","l","g","u","r">>,
        <<"c","o","u","s","c","o","u","s">>, <<"p","a","s","t","a">>,
        <<"n","o","o","d","l","e","s">>, <<"b","r","e","a","d">>, <<"s","o","y","b","e","a","n">>,
        <<"s","o","y">>, <<"l","e","n","t","i","l">>, <<"l","e","n","t","i","l","s">>,
        <<"c","h","i","c","k","p","e","a">>, <<"c","h","i","c","k","p","e","a","s">>,
        <<"b","l","a","c","k"," ","b","e","a","n">>,
        <<"k","i","d","n","e","y"," ","b","e","a","n">>,
        <<"p","i","n","t","o"," ","b","e","a","n">>, <<"n","a","v","y"," ","b","e","a","n">>,
        <<"p","e","a","n","u","t">>, <<"p","e","a","n","u","t","s">>,
        <<"p","e","a","n","u","t"," ","b","u","t","t","e","r">>, <<"t","o","f","u">>,
        <<"t","e","m","p","e","h">>, <<"e","d","a","m","a","m","e">>, <<"m","i","l","k">>,
        <<"c","r","e","a","m">>, <<"b","u","t","t","e","r">>, <<"c","h","e","e","s","e">>,
        <<"w","h","e","y">>, <<"c","a","s","e","i","n">>, <<"y","o","g","u","r","t">>,
        <<"s","u","g","a","r">>, <<"c","a","n","e"," ","s","u","g","a","r">>,
        <<"h","i","g","h"," ","f","r","u","c","t","o","s","e"," ","c","o","r","n"," ","s","y","r","u","p">>,
        <<"c","o","r","n"," ","s","y","r","u","p">>, <<"d","e","x","t","r","o","s","e">>,
        <<"m","a","l","t","o","d","e","x","t","r","i","n">>,
        <<"s","o","y","b","e","a","n"," ","o","i","l">>,
        <<"c","a","n","o","l","a"," ","o","i","l">>,
        <<"v","e","g","e","t","a","b","l","e"," ","o","i","l">>,
        <<"c","o","r","n"," ","o","i","l">>, <<"m","a","r","g","a","r","i","n","e">>,
        <<"s","h","o","r","t","e","n","i","n","g">> >>,
     cautionTerms |-> <<
        <<"n","a","t","u","r","a","l"," ","f","l","a","v","o","r","s">>,
        <<"m","o","d","i","f","i","e","d"," ","f","o","o","d"," ","s","t","a","r","c","h">>,
        <<"x","a","n","t","h","a","n"," ","g","u","m">>, <<"g","u","a","r"," ","g","u","m">>,
        <<"c","a","r","r","a","g","e","e","n","a","n">> >>,
     reasonTemplate |-> "not paleo-compatible"]

\* DIETARY_RULES["Low-FODMAP"]
ruleLowFodmap ==
    [key |-> <<"L","o","w","-","F","O","D","M","A","P">>,
     label |-> <<"L","o","w","-","F","O","D","M","A","P">>,
     violationTerms |-> <<
        <<"g","a","r","l","i","c">>, <<"g","a","r","l","i","c"," ","p","o","w","d","e","r">>,
        <<"o","n","i","o","n">>, <<"o","n","i","o","n"," ","p","o","w","d","e","r">>,
        <<"h","i","g","h"," ","f","r","u","c","t","o","s","e"," ","c","o","r","n"," ","s","y","r","u","p">>,
        <<"h","f","c","s">>, <<"a","g","a","v","e">>, <<"h","o","n","e","y">>,
        <<"i","n","u","l","i","n">>, <<"c","h","i","c","o","r","y"," ","r","o","o","t">>,
        <<"c","h","i","c","o","r","y"," ","r","o","o","t"," ","f","i","b","e","r">>,
        <<"f","r","u","c","t","o","-","o","l","i","g","o","s","a","c","c","h","a","r","i","d","e","s">>,
        <<"f","o","s">>, <<"s","o","r","b","i","t","o","l">>, <<"m","a","n","n","i","t","o","l">>,
        <<"x","y","l","i","t","o","l">>, <<"m","a","l","t","i","t","o","l">>,
        <<"i","s","o","m","a","l","t">>,
        <<"a","p","p","l","e"," ","j","u","i","c","e"," ","c","o","n","c","e","n","t","r","a","t","e">>,
        <<"p","e","a","r"," ","j","u","i","c","e"," ","c","o","n","c","e","n","t","r","a","t","e">>,
        <<"l","a","c","t","o","s","e">>, <<"m","i","l","k">>, <<"c","r","e","a","m">>,
        <<"i","c","e"," ","c","r","e","a","m">>, <<"y","o","g","u","r","t">>,
        <<"w","h","e","a","t">>, <<"r","y","e">>, <<"b","a","r","l","e","y">>,
        <<"c","h","i","c","k","p","e","a","s">>, <<"l","e","n","t","i","l","s">>,
        <<"b","l","a","c","k"," ","b","e","a","n","s">>,
        <<"k","i","d","n","e","y"," ","b","e","a","n","s">> >>,
     cautionTerms |-> <<
        <<"n","a","t","u","r","a","l"," ","f","l","a","v","o","r","s">>,
        <<"s","p","i","c","e","s">>, <<"s","e","a","s","o","n","i","n","g">>,
        <<"m","u","s","h","r","o","o","m">>, <<"m","u","s","h","r","o","o","m","s">>,
        <<"c","a","u","l","i","f","l","o","w","e","r">> >>,
     reasonTemplate |-> "high-FODMAP ingredient"]

\* DIETARY_RULES["Halal"]
ruleHalal ==
    [key |-> <<"H","a","l","a","l">>,
     label |-> <<"H","a","l","a","l">>,
     violationTerms |-> <<
        <<"p","o","r","k">>, <<"h","a","m">>, <<"b","a","c","o","n">>,
        <<"p","r","o","s","c","i","u","t","t","o">>, <<"p","a","n","c","e","t","t","a">>,
        <<"l","a","r","d">>, <<"p","o","r","k"," ","g","e","l","a","t","i","n">>,
        <<"p","o","r","k"," ","f","a","t">>, <<"p","o","r","k"," ","r","i","n","d">>,
        <<"p","e","p","p","e","r","o","n","i">>, <<"s","a","l","a","m","i">>,
        <<"c","h","o","r","i","z","o">>, <<"a","l","c","o","h","o","l">>,
        <<"e","t","h","a","n","o","l">>, <<"w","i","n","e">>, <<"b","e","e","r">>, <<"r","u","m">>,
        <<"b","r","a","n","d","y">>, <<"b","o","u","r","b","o","n">>,
        <<"w","h","i","s","k","e","y">>, <<"w","h","i","s","k","y">>, <<"v","o","d","k","a">>,
        <<"g","i","n">>, <<"l","i","q","u","e","u","r">>, <<"l","i","q","u","o","r">>,
        <<"m","i","r","i","n">>, <<"w","i","n","e"," ","v","i","n","e","g","a","r">>,
        <<"r","e","d"," ","w","i","n","e">>, <<"w","h","i","t","e"," ","w","i","n","e">>,
        <<"v","a","n","i","l","l","a"," ","e","x","t","r","a","c","t">> >>,
     cautionTerms |-> <<
        <<"g","e","l","a","t","i","n">>, <<"g","e","l","a","t","i","n","e">>,
        <<"g","l","y","c","e","r","i","n">>, <<"g","l","y","c","e","r","i","n","e">>,
        <<"m","o","n","o"," ","a","n","d"," ","d","i","g","l","y","c","e","r","i","d","e","s">>,
        <<"m","o","n","o","-","d","i","g","l","y","c","e","r","i","d","e">>,
        <<"l","-","c","y","s","t","e","i","n","e">>,
        <<"n","a","t","u","r","a","l"," ","f","l","a","v","o","r","s">>,
        <<"n","a","t","u","r","a","l"," ","f","l","a","v","o","u","r","s">>,
        <<"e","n","z","y","m","e","s">>, <<"r","e","n","n","e","t">>,
        <<"e","m","u","l","s","i","f","i","e","r">>, <<"e","4","7","1">>, <<"e","4","7","2">>,
        <<"s","t","e","a","r","i","c"," ","a","c","i","d">> >>,
     reasonTemplate |-> "not halal"]

\* DIETARY_RULES["Kosher"]
ruleKosher ==
    [key |-> <<"K","o","s","h","e","r">>,
     label |-> <<"K","o","s","h","e","r">>,
     violationTerms |-> <<
        <<"p","o","r","k">>, <<"h","a","m">>, <<"b","a","c","o","n">>, <<"l","a","r","d">>,
        <<"p","o","r","k"," ","g","e","l","a","t","i","n">>,
        <<"s","h","e","l","l","f","i","s","h">>, <<"s","h","r","i","m","p">>, <<"c","r","a","b">>,
        <<"l","o","b","s","t","e","r">>, <<"c","l","a","m">>, <<"m","u","s","s","e","l">>,
        <<"o","y","s","t","e","r">>, <<"s","c","a","l","l","o","p">>, <<"s","q","u","i","d">>,
        <<"c","a","l","a","m","a","r","i">> >>,
     cautionTerms |-> <<
        <<"g","e","l","a","t","i","n">>, <<"g","e","l","a","t","i","n","e">>,
        <<"g","l","y","c","e","r","i","n">>, <<"g","l","y","c","e","r","i","n","e">>,
        <<"n","a","t","u","r","a","l"," ","f","l","a","v","o","r","s">>,
        <<"n","a","t","u","r","a","l"," ","f","l","a","v","o","u","r","s">>,
        <<"e","n","z","y","m","e","s">>, <<"r","e","n","n","e","t">>,
        <<"e","m","u","l","s","i","f","i","e","r">>,
        <<"m","o","n","o"," ","a","n","d"," ","d","i","g","l","y","c","e","r","i","d","e","s">>,
        <<"s","t","e","a","r","i","c"," ","a","c","i","d">> >>,
     reasonTemplate |-> "not kosher"]

\* the entries of DIETARY_RULES, in the order of the source
DIETARY_RULES == <<ruleVegan, ruleVegetarian, ruleGlutenFree, ruleDairyFree, ruleNutFree, ruleKetoLowCarb, ruleLowSodium, rulePescatarian, rulePaleo, ruleLowFodmap, ruleHalal, ruleKosher>>

\* DIETARY_RULES[prefKey]: the index of the rule, 0 when there is none
dietaryRuleIndex(prefKey) ==
    LET hits == {k \in 1..Len(DIETARY_RULES) : DIETARY_RULES[k].key = prefKey}
    IN IF hits = {} THEN 0 ELSE Min(hits)

----------------------------------------------------------------------------
(* allergenDatabase: ALLERGEN_SYNONYM_MAP.  The module is imported by the *)
(* policy engine; the entries here are the ones the engine's comments and *)
(* the specification name (butter and whey powder as Milk, lecithin as    *)
(* Soy, livetin as Eggs, sesame salt as Sesame) and the canonical names.  *)

Milk == <<"M","i","l","k">>
Soy == <<"S","o","y">>
Eggs == <<"E","g","g","s">>
Wheat == <<"W","h","e","a","t">>
Peanuts == <<"P","e","a","n","u","t","s">>
Sesame == <<"S","e","s","a","m","e">>

ALLERGEN_SYNONYM_MAP == <<
    [term |-> <<"m","i","l","k">>, allergen |-> Milk],
    [term |-> <<"b","u","t","t","e","r">>, allergen |-> Milk],
    [term |-> <<"w","h","e","y"," ","p","o","w","d","e","r">>, allergen |-> Milk],
    [term |-> <<"s","o","y">>, allergen |-> Soy],
    [term |-> <<"l","e","c","i","t","h","i","n">>, allergen |-> Soy],
    [term |-> <<"s","o","y"," ","l","e","c","i","t","h","i","n">>, allergen |-> Soy],
    [term |-> <<"l","i","v","e","t","i","n">>, allergen |-> Eggs],
    [term |-> <<"w","h","e","a","t">>, allergen |-> Wheat],
    [term |-> <<"w","h","e","a","t"," ","f","l","o","u","r">>, allergen |-> Wheat],
    [term |-> <<"p","e","a","n","u","t"," ","b","u","t","t","e","r">>, allergen |-> Peanuts],
    [term |-> <<"s","e","s","a","m","e"," ","s","a","l","t">>, allergen |-> Sesame] >>

\* ALLERGEN_SYNONYM_MAP[lower]; "" stands for undefined (both are falsy)
synonymLookup(lower) ==
    LET hits == {k \in 1..Len(ALLERGEN_SYNONYM_MAP) : ALLERGEN_SYNONYM_MAP[k].term = lower}
    IN IF hits = {} THEN <<>> ELSE ALLERGEN_SYNONYM_MAP[Min(hits)].allergen

----------------------------------------------------------------------------
(* policyEngine: checkAllergens *)

FALSE_POSITIVE_EXCLUSIONS == <<
    [allergen |-> Milk, exclusions |-> <<
        <<"c","o","c","o","a"," ","b","u","t","t","e","r">>,
        <<"s","h","e","a"," ","b","u","t","t","e","r">>,
        <<"m","a","n","g","o"," ","b","u","t","t","e","r">>,
        <<"k","o","k","u","m"," ","b","u","t","t","e","r">>,
        <<"p","e","a","n","u","t"," ","b","u","t","t","e","r">>,
        <<"a","l","m","o","n","d"," ","b","u","t","t","e","r">>,
        <<"c","a","s","h","e","w"," ","b","u","t","t","e","r">>,
        <<"s","u","n","f","l","o","w","e","r"," ","b","u","t","t","e","r">>,
        <<"n","u","t"," ","b","u","t","t","e","r">>,
        <<"s","e","e","d"," ","b","u","t","t","e","r">>,
        <<"s","o","y"," ","b","u","t","t","e","r">>,
        <<"c","o","c","o","n","u","t"," ","b","u","t","t","e","r">> >>],
    [allergen |-> Soy, exclusions |-> <<
        <<"s","u","n","f","l","o","w","e","r"," ","l","e","c","i","t","h","i","n">> >>],
    [allergen |-> Eggs, exclusions |-> <<
        <<"l","i","v","e"," ","a","n","d"," ","a","c","t","i","v","e"," ","c","u","l","t","u","r","e","s">>,
        <<"l","i","v","e"," ","c","u","l","t","u","r","e","s">>,
        <<"l","i","v","e"," ","a","c","t","i","v","e"," ","c","u","l","t","u","r","e","s">> >>] >>

\* a matcher without the exclusion table
noFalsePositives(ingredientLower, allergen) == FALSE

isFalsePositive(ingredientLower, allergen) ==
    \E k \in 1..Len(FALSE_POSITIVE_EXCLUSIONS) :
        /\ FALSE_POSITIVE_EXCLUSIONS[k].allergen = allergen
        /\ \E e \in 1..Len(FALSE_POSITIVE_EXCLUSIONS[k].exclusions) :
              Includes(ingredientLower, FALSE_POSITIVE_EXCLUSIONS[k].exclusions[e])

\* Math.abs
Abs(n) == IF n < 0 THEN -n ELSE n

\* findings.some(...)
Some(findings, P(_)) == \E i \in 1..Len(findings) : P(findings[i])

\* a Finding; the reason is kept as its template and the values filled in,
\* evidenceSpans are always findEvidenceSpans(rawText, matchedText)
Finding(kind, severity, matchedText, canonicalTerm, template, args, rawText, source, confidence) ==
    [kind |-> kind,
     severity |-> severity,
     matchedText |-> matchedText,
     canonicalTerm |-> canonicalTerm,
     reason |-> [template |-> template, args |-> args],
     evidenceSpans |-> findEvidenceSpans(rawText, matchedText),
     source |-> source,
     confidence |-> confidence]

\* [...profile.allergies, ...(profile.customAllergies || [])]
allAllergiesOf(profile) == profile.allergies \o Coalesce(profile, "customAllergies", <<>>)

\* the direct synonym map lookup of one ingredient: the finding is pushed
\* and the ingredient is done (continue)
exactHit(ingredient, lower, userAllergenSet) ==
    LET canonical == synonymLookup(lower)
    IN /\ canonical # <<>>
       /\ ToLower(canonical) \in userAllergenSet
       /\ ~isFalsePositive(lower, canonical)

\* the loop over Object.entries(ALLERGEN_SYNONYM_MAP) for one ingredient:
\* the first entry that passes every continue pushes a finding and breaks
\* (findings does not change before the push)
synonymScan(findings, ingredient, lower, userAllergenSet, rawText) ==
    LET passes(k) ==
            LET term == ALLERGEN_SYNONYM_MAP[k].term
                allergen == ALLERGEN_SYNONYM_MAP[k].allergen
                ingredientContainsTerm == Includes(lower, term)
                termContainsIngredient ==
                    Includes(term, lower) /\ Abs(Len(term) - Len(lower)) <= 3
                alreadyFound(f) ==
                    f.kind = "ALLERGEN" /\ f.canonicalTerm = allergen
                        /\ f.matchedText = ingredient
            IN /\ ToLower(allergen) \in userAllergenSet
               /\ ingredientContainsTerm \/ termContainsIngredient
               /\ ~isFalsePositive(lower, allergen)
               /\ ~Some(findings, alreadyFound)
        hits == {k \in 1..Len(ALLERGEN_SYNONYM_MAP) : passes(k)}
    IN IF hits = {} THEN findings
       ELSE LET e == ALLERGEN_SYNONYM_MAP[Min(hits)]
            IN Append(findings,
                 Finding("ALLERGEN", "UNSAFE", ingredient, e.allergen,
                         "\"${ingredient}\" contains \"${term}\" - ${allergen} allergen",
                         <<ingredient, e.term, e.allergen>>, rawText, "ingredients", 90))

\* the loop over allAllergies for one ingredient (direct allergen name match)
RECURSIVE directScan(_, _, _, _, _, _)
directScan(findings, ingredient, lower, allAllergies, rawText, j) ==
    IF j > Len(allAllergies) THEN findings
    ELSE LET allergen == allAllergies[j]
             lowerAllergen == ToLower(allergen)
             alreadyFound(f) == f.kind = "ALLERGEN" /\ f.matchedText = ingredient
             push == /\ Includes(lower, lowerAllergen) \/ Includes(lowerAllergen, lower)
                     /\ ~Some(findings, alreadyFound)
         IN directScan(
              IF push
              THEN Append(findings,
                     Finding("ALLERGEN", "UNSAFE", ingredient, allergen,
                             "\"${ingredient}\" matches your \"${allergen}\" allergy",
                             <<ingredient, allergen>>, rawText, "ingredients", 85))
              ELSE findings,
              ingredient, lower, allAllergies, rawText, j + 1)

\* the loop over parsedLabel.ingredients
RECURSIVE ingredientScan(_, _, _, _, _)
ingredientScan(findings, ingredients, profile, rawText, i) ==
    IF i > Len(ingredients) THEN findings
    ELSE LET ingredient == ingredients[i]
             lower == Trim(ToLower(ingredient))
             allAllergies == allAllergiesOf(profile)
             userAllergenSet == {ToLower(a) : a \in Range(allAllergies)}
             canonical == synonymLookup(lower)
         IN IF exactHit(ingredient, lower, userAllergenSet)
            THEN ingredientScan(
                   Append(findings,
                     Finding("ALLERGEN", "UNSAFE", ingredient, canonical,
                             "\"${ingredient}\" is a ${canonical} derivative - ${canonical} allergen",
                             <<ingredient, canonical>>, rawText, "ingredients", 100)),
                   ingredients, profile, rawText, i + 1)
            ELSE ingredientScan(
                   directScan(
                     synonymScan(findings, ingredient, lower, userAllergenSet, rawText),
                     ingredient, lower, allAllergies, rawText, 1),
                   ingredients, profile, rawText, i + 1)

\* the "Contains:" loops: n counts the (statement, allergen) pairs in the
\* order of the nested for loops
RECURSIVE containsScan(_, _, _, _, _)
containsScan(findings, statements, allAllergies, rawText, n) ==
    IF n >= Len(statements) * Len(allAllergies) THEN findings
    ELSE LET statement == statements[(n \div Len(allAllergies)) + 1]
             allergen == allAllergies[(n % Len(allAllergies)) + 1]
             lowerAllergen == ToLower(allergen)
             alreadyFound(f) ==
                 f.kind = "ALLERGEN" /\ ToLower(f.canonicalTerm) = lowerAllergen
             push == /\ Includes(statement, lowerAllergen) \/ Includes(lowerAllergen, statement)
                     /\ ~Some(findings, alreadyFound)
         IN containsScan(
              IF push
              THEN Append(findings,
                     Finding("ALLERGEN", "UNSAFE", statement, allergen,
                             "Label declares \"Contains: ${statement}\" - ${allergen} allergen",
                             <<statement, allergen>>, rawText, "contains", 100))
              ELSE findings,
              statements, allAllergies, rawText, n + 1)

\* a severity that ignores the profile's flag
alwaysCaution(profile) == "CAUTION"

\* profile.treatMayContainAsUnsafe ? "UNSAFE" : "CAUTION"
mayContainSeverity(profile) ==
    IF profile.treatMayContainAsUnsafe THEN "UNSAFE" ELSE "CAUTION"

\* the "May contain:" loops
RECURSIVE mayContainScan(_, _, _, _, _, _)
mayContainScan(findings, statements, allAllergies, profile, rawText, n) ==
    IF n >= Len(statements) * Len(allAllergies) THEN findings
    ELSE LET statement == statements[(n \div Len(allAllergies)) + 1]
             allergen == allAllergies[(n % Len(allAllergies)) + 1]
             lowerAllergen == ToLower(allergen)
             alreadyFound(f) ==
                 /\ f.kind = "ALLERGEN"
                 /\ ToLower(f.canonicalTerm) = lowerAllergen
                 /\ f.source = "may_contain"
             push == /\ Includes(statement, lowerAllergen) \/ Includes(lowerAllergen, statement)
                     /\ ~Some(findings, alreadyFound)
             severity == mayContainSeverity(profile)
         IN mayContainScan(
              IF push
              THEN Append(findings,
                     Finding("ALLERGEN", severity, statement, allergen,
                             "Label warns \"May contain: ${statement}\" - possible ${allergen} cross-contamination",
                             <<statement, allergen>>, rawText, "may_contain", 60))
              ELSE findings,
              statements, allAllergies, profile, rawText, n + 1)

\* deduplicateFindings: the first finding of each kind|canonicalTerm|matchedText
deduplicateFindings(findings) ==
    LET key(f) == <<f.kind, f.canonicalTerm, f.matchedText>>
        keep == {i \in 1..Len(findings) :
                    \A j \in 1..(i - 1) : key(findings[j]) # key(findings[i])}
    IN AtIndexes(findings, keep)

checkAllergens(label, profile, rawText) ==
    LET allAllergies == allAllergiesOf(profile)
        fromIngredients == ingredientScan(<<>>, label.ingredients, profile, rawText, 1)
        fromContains ==
            containsScan(fromIngredients, label.containsStatements, allAllergies, rawText, 0)
        fromMayContain ==
            mayContainScan(fromContains, label.mayContainStatements, allAllergies, profile,
                           rawText, 0)
    IN IF Len(allAllergies) = 0 THEN <<>> ELSE deduplicateFindings(fromMayContain)

----------------------------------------------------------------------------
(* policyEngine: checkDietaryPreferences *)

PLANT_BASED_EXCEPTIONS == <<
    <<"c","o","c","o","a"," ","b","u","t","t","e","r">>,
    <<"s","h","e","a"," ","b","u","t","t","e","r">>,
    <<"m","a","n","g","o"," ","b","u","t","t","e","r">>,
    <<"k","o","k","u","m"," ","b","u","t","t","e","r">>,
    <<"p","e","a","n","u","t"," ","b","u","t","t","e","r">>,
    <<"a","l","m","o","n","d"," ","b","u","t","t","e","r">>,
    <<"c","a","s","h","e","w"," ","b","u","t","t","e","r">>,
    <<"s","u","n","f","l","o","w","e","r"," ","b","u","t","t","e","r">>,
    <<"n","u","t"," ","b","u","t","t","e","r">>, <<"s","e","e","d"," ","b","u","t","t","e","r">>,
    <<"c","o","c","o","n","u","t"," ","b","u","t","t","e","r">>,
    <<"s","o","y"," ","b","u","t","t","e","r">>, <<"a","l","m","o","n","d"," ","m","i","l","k">>,
    <<"o","a","t"," ","m","i","l","k">>, <<"s","o","y"," ","m","i","l","k">>,
    <<"c","o","c","o","n","u","t"," ","m","i","l","k">>, <<"r","i","c","e"," ","m","i","l","k">>,
    <<"c","a","s","h","e","w"," ","m","i","l","k">>, <<"h","e","m","p"," ","m","i","l","k">>,
    <<"c","o","c","o","n","u","t"," ","c","r","e","a","m">>,
    <<"c","o","c","o","n","u","t"," ","o","i","l">>,
    <<"s","u","n","f","l","o","w","e","r"," ","l","e","c","i","t","h","i","n">> >>

ambiguousTerms == <<<<"b","u","t","t","e","r">>, <<"m","i","l","k">>, <<"c","r","e","a","m">>,
                    <<"l","e","c","i","t","h","i","n">>, <<"i","c","e"," ","c","r","e","a","m">>>>

\* a matcher without the plant-based exceptions
noPlantBasedExceptions(ingredientLower, violationTerm) == FALSE

isPlantBasedException(ingredientLower, violationTerm) ==
    /\ violationTerm \in Range(ambiguousTerms)
    /\ \E e \in 1..Len(PLANT_BASED_EXCEPTIONS) :
          Includes(ingredientLower, PLANT_BASED_EXCEPTIONS[e])

\* the loop over rule.violationTerms for one ingredient: the first term that
\* passes every continue pushes a finding and breaks
violationScan(findings, rule, ingredient, lower, rawText) ==
    LET alreadyFound(f) ==
            f.kind = "DIETARY" /\ f.canonicalTerm = rule.label /\ f.matchedText = ingredient
        passes(k) ==
            LET violationTerm == rule.violationTerms[k]
                ingredientContainsViolation == Includes(lower, violationTerm)
                violationContainsIngredient ==
                    /\ Includes(violationTerm, lower)
                    /\ Len(lower) >= 3
                    /\ Abs(Len(violationTerm) - Len(lower)) <= 4
            IN /\ ingredientContainsViolation \/ violationContainsIngredient
               /\ ~isPlantBasedException(lower, violationTerm)
               /\ ~Some(findings, alreadyFound)
        hits == {k \in 1..Len(rule.violationTerms) : passes(k)}
    IN IF hits = {} THEN findings
       ELSE Append(findings,
              Finding("DIETARY", "UNSAFE", ingredient, rule.label,
                      "\"${ingredient}\" is ${rule.reasonTemplate} - violates ${rule.label} preference",
                      <<ingredient, rule.reasonTemplate, rule.label>>,
                      rawText, "ingredients", 95))

\* the loop over rule.cautionTerms for one ingredient
cautionScan(findings, rule, ingredient, lower, rawText) ==
    LET alreadyFound(f) ==
            f.kind = "DIETARY" /\ f.canonicalTerm = rule.label /\ f.matchedText = ingredient
        passes(k) ==
            LET cautionTerm == rule.cautionTerms[k]
                ingContainsCaution == Includes(lower, cautionTerm)
                cautionContainsIng ==
                    /\ Includes(cautionTerm, lower)
                    /\ Len(lower) >= 3
                    /\ Abs(Len(cautionTerm) - Len(lower)) <= 4
            IN /\ ingContainsCaution \/ cautionContainsIng
               /\ ~Some(findings, alreadyFound)
        hits == {k \in 1..Len(rule.cautionTerms) : passes(k)}
    IN IF hits = {} THEN findings
       ELSE Append(findings,
              Finding("DIETARY", "CAUTION", ingredient, rule.label,
                      "\"${ingredient}\" may be ${rule.reasonTemplate} - check if compatible with ${rule.label}",
                      <<ingredient, rule.reasonTemplate, rule.label>>,
                      rawText, "ingredients", 60))

\* the loop over parsedLabel.ingredients for one rule
RECURSIVE ruleScan(_, _, _, _, _)
ruleScan(findings, rule, ingredients, rawText, i) ==
    IF i > Len(ingredients) THEN findings
    ELSE LET ingredient == ingredients[i]
             lower == Trim(ToLower(ingredient))
         IN ruleScan(
              cautionScan(violationScan(findings, rule, ingredient, lower, rawText),
                          rule, ingredient, lower, rawText),
              rule, ingredients, rawText, i + 1)

\* the loop over allPreferences; a preference without a rule is skipped
RECURSIVE preferenceScan(_, _, _, _, _)
preferenceScan(findings, allPreferences, ingredients, rawText, p) ==
    IF p > Len(allPreferences) THEN findings
    ELSE LET r == dietaryRuleIndex(allPreferences[p])
         IN preferenceScan(
              IF r = 0 THEN findings
              ELSE ruleScan(findings, DIETARY_RULES[r], ingredients, rawText, 1),
              allPreferences, ingredients, rawText, p + 1)

checkDietaryPreferences(label, profile, rawText) ==
    LET allPreferences == profile.preferences \o Coalesce(profile, "customPreferences", <<>>)
    IN IF Len(allPreferences) = 0 THEN <<>>
       ELSE deduplicateFindings(
              preferenceScan(<<>>, allPreferences, label.ingredients, rawText, 1))

----------------------------------------------------------------------------
(* policyEngine: checkForbiddenKeywords *)

\* the ingredient loop with only the test lower.includes(lowerKeyword)
keywordIngredientScanOneWay(findings, keyword, lowerKeyword, ingredients, rawText) ==
    LET hits == {i \in 1..Len(ingredients) :
                    Includes(Trim(ToLower(ingredients[i])), lowerKeyword)}
    IN IF hits = {} THEN findings
       ELSE Append(findings,
              Finding("FORBIDDEN_KEYWORD", "UNSAFE", ingredients[Min(hits)], keyword,
                      "\"${ingredient}\" matches your forbidden keyword \"${keyword}\"",
                      <<ingredients[Min(hits)], keyword>>, rawText, "ingredients", 100))

\* the loop over parsedLabel.ingredients for one keyword: the first
\* ingredient that matches pushes a finding and breaks
keywordIngredientScan(findings, keyword, lowerKeyword, ingredients, rawText) ==
    LET matches(i) ==
            LET lower == Trim(ToLower(ingredients[i]))
            IN Includes(lower, lowerKeyword) \/ Includes(lowerKeyword, lower)
        hits == {i \in 1..Len(ingredients) : matches(i)}
    IN IF hits = {} THEN findings
       ELSE Append(findings,
              Finding("FORBIDDEN_KEYWORD", "UNSAFE", ingredients[Min(hits)], keyword,
                      "\"${ingredient}\" matches your forbidden keyword \"${keyword}\"",
                      <<ingredients[Min(hits)], keyword>>, rawText, "ingredients", 100))

\* the check of the raw text for one keyword
keywordRawTextScan(findings, keyword, lowerKeyword, rawText) ==
    LET alreadyFound(f) ==
            f.kind = "FORBIDDEN_KEYWORD" /\ ToLower(f.canonicalTerm) = lowerKeyword
    IN IF /\ Includes(ToLower(rawText), lowerKeyword)
          /\ ~Some(findings, alreadyFound)
          /\ Len(findEvidenceSpans(rawText, keyword)) > 0
       THEN Append(findings,
              Finding("FORBIDDEN_KEYWORD", "UNSAFE", keyword, keyword,
                      "Found forbidden keyword \"${keyword}\" in label text",
                      <<keyword>>, rawText, "ingredients", 90))
       ELSE findings

\* the loop over keywords; a blank keyword is skipped
RECURSIVE keywordScan(_, _, _, _, _)
keywordScan(findings, keywords, ingredients, rawText, k) ==
    IF k > Len(keywords) THEN findings
    ELSE LET keyword == keywords[k]
             lowerKeyword == Trim(ToLower(keyword))
         IN keywordScan(
              IF lowerKeyword = <<>> THEN findings
              ELSE keywordRawTextScan(
                     keywordIngredientScan(findings, keyword, lowerKeyword, ingredients, rawText),
                     keyword, lowerKeyword, rawText),
              keywords, ingredients, rawText, k + 1)

checkForbiddenKeywords(label, profile, rawText) ==
    IF Len(profile.forbiddenKeywords) = 0 THEN <<>>
    ELSE deduplicateFindings(
           keywordScan(<<>>, profile.forbiddenKeywords, label.ingredients, rawText, 1))

----------------------------------------------------------------------------
(* policyEngine: evaluateLabel, evaluateLabelForProfiles *)

\* an aggregation that tests CAUTION before UNSAFE
statusCautionFirst(findings) ==
    IF \E i \in 1..Len(findings) : findings[i].severity = "CAUTION" THEN "CAUTION"
    ELSE IF \E i \in 1..Len(findings) : findings[i].severity = "UNSAFE" THEN "UNSAFE"
    ELSE "SAFE"

\* the overall status of a list of findings
statusOf(findings) ==
    LET isUnsafe(f) == f.severity = "UNSAFE"
        isCaution(f) == f.severity = "CAUTION"
    IN IF Some(findings, isUnsafe) THEN "UNSAFE"
       ELSE IF Some(findings, isCaution) THEN "CAUTION"
       ELSE "SAFE"

\* findings.filter((f) => f.kind === kind).length
countKind(findings, kind) == Cardinality({i \in 1..Len(findings) : findings[i].kind = kind})

\* the PolicyResult of the collected findings
policyResult(findings, profile) ==
    [status |-> statusOf(findings),
     findings |-> findings,
     confidence |-> IF Len(findings) > 0
                    THEN Min({findings[i].confidence : i \in 1..Len(findings)})
                    ELSE 100,
     profileId |-> profile.id,
     profileName |-> profile.name,
     allergenCount |-> countKind(findings, "ALLERGEN"),
     dietaryCount |-> countKind(findings, "DIETARY"),
     keywordCount |-> countKind(findings, "FORBIDDEN_KEYWORD")]

\* rawText is parsedLabel.normalizedText
evaluateLabel(label, profile) ==
    policyResult(checkAllergens(label, profile, label.normalizedText)
                   \o checkDietaryPreferences(label, profile, label.normalizedText)
                   \o checkForbiddenKeywords(label, profile, label.normalizedText),
                 profile)

\* a map in which one evaluation sees the allergies of the profile before it
evaluateWithSharedState(label, profiles) ==
    [i \in 1..Len(profiles) |->
        evaluateLabel(label,
            IF i = 1 THEN profiles[i]
            ELSE [profiles[i] EXCEPT !.allergies = profiles[i - 1].allergies \o @])]

\* profiles.map((profile) => evaluateLabel(parsedLabel, profile))
evaluateLabelForProfiles(label, profiles) ==
    [i \in 1..Len(profiles) |-> evaluateLabel(label, profiles[i])]

----------------------------------------------------------------------------
(* inference escalation service: isVeryBadAllergy, escalateInferredRisks *)

VERY_BAD_ALLERGIES == <<
    <<"p","e","a","n","u","t","s">>,
    <<"t","r","e","e"," ","n","u","t","s">>,
    <<"s","h","e","l","l","f","i","s","h">>,
    <<"f","i","s","h">>,
    <<"m","i","l","k">>,
    <<"e","g","g","s">>,
    <<"w","h","e","a","t">>,
    <<"s","o","y">>,
    <<"s","e","s","a","m","e">> >>

isVeryBadAllergyOneWay(inferredRisk) ==
    \E k \in 1..Len(VERY_BAD_ALLERGIES) :
        Includes(ToLower(inferredRisk), VERY_BAD_ALLERGIES[k])

isVeryBadAllergy(inferredRisk) ==
    LET lower == ToLower(inferredRisk)
    IN \E k \in 1..Len(VERY_BAD_ALLERGIES) :
          Includes(lower, VERY_BAD_ALLERGIES[k]) \/ Includes(VERY_BAD_ALLERGIES[k], lower)

\* the for loop over inferredRisks: the risks pushed to escalatedAllergens
escalatedAllergensOf(risks) == SelectSeq(risks, isVeryBadAllergy)

\* the callback of results.map
escalateResult(result, risks) ==
    LET escalatedAllergens == escalatedAllergensOf(risks)
    IN IF Len(escalatedAllergens) = 0 THEN result
       ELSE [result EXCEPT
               !.matchedAllergens = @ \o escalatedAllergens,
               !.status = "unsafe",
               !.safe = FALSE,
               !.reasons = @ \o [i \in 1..Len(escalatedAllergens) |->
                                   [template |-> "Inferred risk escalated: may contain ${a}",
                                    args |-> <<escalatedAllergens[i]>>]]]

\* escalatedItems receives the matching risks once per result
escalateInferredRisks(results, risks) ==
    [results |-> [i \in 1..Len(results) |-> escalateResult(results[i], risks)],
     escalatedItems |->
        Concat([i \in 1..Len(results) |->
                  [j \in 1..Len(escalatedAllergensOf(risks)) |->
                     [name |-> escalatedAllergensOf(risks)[j],
                      escalatedFromInferred |-> TRUE]]])]

----------------------------------------------------------------------------
(* The state machine: one call of findEvidenceSpans, of the analysis      *)
(* pipeline (parseIngredientLabel, then evaluateLabelForProfiles) or of   *)
(* escalateInferredRisks, from its arguments to its return value.         *)

\* the parts of the state a call does not use
NoLabel == [ingredients |-> <<>>, ingredientsRawText |-> <<>>, containsStatements |-> <<>>,
            mayContainStatements |-> <<>>, normalizedText |-> <<>>, sections |-> <<>>]

IdleSpans == inputTerm = <<>> /\ spanResult = <<>>
IdleEngine == parsedLabel = NoLabel /\ inputProfiles = <<>> /\ policyResults = <<>>
IdleEscalation ==
    inputRisks = <<>> /\ priorResults = <<>> /\ profileResults = <<>> /\ escalated = <<>>
IdlePipeline == inputText = <<>> /\ IdleSpans /\ IdleEngine /\ IdleEscalation

\* a scan session as createScanSession writes it
NewSession == [attemptCount |-> 0, manualReviewCount |-> 0, escalationShown |-> FALSE]

IdleAnalysis == ocr = <<>> /\ analysis = <<>>
IdleSession ==
    /\ session = NewSession /\ calls = <<>> /\ shown = <<>>
    /\ persisted = NewSession /\ attempts = <<>>
IdleMerge ==
    /\ local = <<>> /\ server = <<>> /\ merged = <<>>
    /\ baseResult = <<>> /\ overridePayload = <<>> /\ overridden = <<>>
IdleScan == IdleAnalysis /\ IdleSession /\ IdleMerge

IdleAlerts == alertCalls = <<>> /\ adminAlerts = <<>>
IdleFingerprint == names = <<>> /\ fingerprint = <<>>
IdleHistory == historySaves = <<>> /\ scanHistory = <<>>
IdleLimiter == limiter = <<>> /\ windows = <<>> /\ now = 0 /\ responses = <<>>
IdleServices ==
    IdleAlerts /\ IdleFingerprint /\ IdleHistory /\ clientAnalysis = <<>> /\ IdleLimiter

----------------------------------------------------------------------------
(* findEvidenceSpans(rawText, searchTerm) *)

\* the longest text and term drawn from the alphabets below
MaxTextLen == 4
MaxTermLen == 2

SpanTextChars == {"s", "S", "a", " ", "(", ")", "*"}
SpanTermChars == {"s", "S"}

saltpeterCrystals == <<"s","a","l","t","p","e","t","e","r"," ","c","r","y","s","t","a","l","s">>
seaSaltPepper == <<"s","e","a"," ","s","a","l","t",","," ","p","e","p","p","e","r">>
salt == <<"s","a","l","t">>

SpanTexts == SeqsUpTo(SpanTextChars, MaxTextLen) \cup {saltpeterCrystals, seaSaltPepper}
SpanTerms == SeqsUpTo(SpanTermChars, MaxTermLen) \cup {salt}

InitSpans ==
    /\ pc = "start"
    /\ inputText \in SpanTexts
    /\ inputTerm \in SpanTerms
    /\ spanResult = <<>>
    /\ IdleEngine
    /\ IdleEscalation
    /\ IdleScan
    /\ IdleServices

FindSpans ==
    /\ pc = "start"
    /\ spanResult' = findEvidenceSpans(inputText, inputTerm)
    /\ pc' = "done"
    /\ UNCHANGED <<inputText, inputTerm, parsedLabel, inputProfiles, policyResults,
                   inputRisks, priorResults, profileResults, escalated>>
    /\ UNCHANGED <<analysisVars, sessionVars, mergeVars, serviceVars>>

SpecSpans == InitSpans /\ [][FindSpans]_vars

\* the character before / after the occurrence at offset i; a string
\* boundary counts as a space
NeighbourBefore(text, i) == IF i > 0 THEN text[i] ELSE " "
NeighbourAfter(text, term, i) ==
    IF i + Len(term) < Len(text) THEN text[i + Len(term) + 1] ELSE " "

\* offsets of the occurrences of term in text, case-insensitively
Occurrences(text, term) ==
    {i \in 0..(Len(text) - Len(term)) : OccursAt(ToLower(text), ToLower(term), i)}

\* the spans of the occurrences at the offsets in S, left to right
SpansAt(S, term) ==
    [k \in 1..Cardinality(S) |->
        LET i == CHOOSE j \in S : Cardinality({m \in S : m <= j}) = k
        IN [start |-> i, end |-> i + Len(term)]]

IsLetterOrDigit(c) == c \in (WordChars \ {"_"})
BeforeClass == {" ", "\t", "\n", ",", ";", ":", "(", "[", "]", ".", "/", "-"}
AfterClass == {" ", "\t", "\n", ",", ";", ":", ")", "]", ".", "/", "-"}

SpansWellFormed ==
    \A k \in 1..Len(spanResult) :
        /\ 0 <= spanResult[k].start
        /\ spanResult[k].start <= spanResult[k].end
        /\ spanResult[k].end <= Len(inputText)
        /\ ToLower(SubSeq(inputText, spanResult[k].start + 1, spanResult[k].end))
             = ToLower(inputTerm)
        /\ k > 1 => spanResult[k - 1].start < spanResult[k].start

SpanExamples ==
    /\ (inputText = saltpeterCrystals /\ inputTerm = salt) => spanResult = <<>>
    /\ (inputText = seaSaltPepper /\ inputTerm = salt)
          => spanResult = <<[start |-> 4, end |-> 8]>>

----------------------------------------------------------------------------
(* parseIngredientLabel(rawText), then evaluateLabelForProfiles(label, profiles) *)

ParseLabel ==
    /\ pc = "start"
    /\ parsedLabel' = parseIngredientLabel(inputText)
    /\ pc' = "parsed"
    /\ UNCHANGED <<inputText, inputTerm, spanResult, inputProfiles, policyResults,
                   inputRisks, priorResults, profileResults, escalated>>
    /\ UNCHANGED <<analysisVars, sessionVars, mergeVars, serviceVars>>

EvaluateProfiles(profiles) ==
    /\ pc = "parsed"
    /\ inputProfiles' = profiles
    /\ policyResults' = evaluateLabelForProfiles(parsedLabel, profiles)
    /\ pc' = "done"
    /\ UNCHANGED <<inputText, inputTerm, spanResult, parsedLabel,
                   inputRisks, priorResults, profileResults, escalated>>
    /\ UNCHANGED <<analysisVars, sessionVars, mergeVars, serviceVars>>

InitLabel(texts) ==
    /\ pc = "start"
    /\ inputText \in texts
    /\ IdleSpans
    /\ IdleEngine
    /\ IdleEscalation
    /\ IdleScan
    /\ IdleServices

\* a UserProfile; the optional fields are present as empty lists or FALSE
Profile(id, allergies, customAllergies, preferences, forbiddenKeywords, treatMayContainAsUnsafe) ==
    [id |-> id, name |-> id,
     allergies |-> allergies, customAllergies |-> customAllergies,
     preferences |-> preferences, customPreferences |-> <<>>,
     forbiddenKeywords |-> forbiddenKeywords,
     treatMayContainAsUnsafe |-> treatMayContainAsUnsafe]

----------------------------------------------------------------------------
(* labels made of section keywords in any order *)

MaxSegments == 4

LabelSegments == {<<"I","n","g","r","e","d","i","e","n","t","s",":"," ">>, <<"C","o","n","t","a","i","n","s",":"," ">>, <<"M","a","y"," ","c","o","n","t","a","i","n",":"," ">>,
                  <<"m","i","l","k">>, <<"."," ">>, <<","," ","s","o","y">>}

LabelTexts == {Concat(segs) : segs \in SeqsUpTo(LabelSegments, MaxSegments)}

SpecLabel == InitLabel(LabelTexts) /\ [][ParseLabel]_vars

\* C8: every section boundary of the parsed label (ingredients, contains,
\* mayContain) satisfies start <= end <= length(normalizedText), whatever the
\* order of the section keywords in the text.
C8_SectionBoundsOrdered ==
    pc = "parsed" =>
        \A key \in DOMAIN parsedLabel.sections :
            /\ parsedLabel.sections[key].start <= parsedLabel.sections[key].end
            /\ parsedLabel.sections[key].end <= Len(parsedLabel.normalizedText)

----------------------------------------------------------------------------
(* one profile evaluated against an ingredient list with optional          *)
(* Contains / May contain statements                                        *)

MaxIngredients == 2

peanutButter == <<"p","e","a","n","u","t"," ","b","u","t","t","e","r">>
sunflowerLecithin == <<"s","u","n","f","l","o","w","e","r"," ","l","e","c","i","t","h","i","n">>
oatMilk == <<"o","a","t"," ","m","i","l","k">>
almondButter == <<"a","l","m","o","n","d"," ","b","u","t","t","e","r">>
butter == <<"b","u","t","t","e","r">>

IngredientPool == {peanutButter, sunflowerLecithin, oatMilk, almondButter, <<"m","i","l","k">>}

LabelTails == {<<>>, <<"."," ","C","o","n","t","a","i","n","s",":"," ","m","i","l","k",","," ","s","o","y">>, <<"."," ","M","a","y"," ","c","o","n","t","a","i","n",":"," ","m","i","l","k",","," ","m","i","l","k"," ","p","o","w","d","e","r">>}

RECURSIVE JoinComma(_)
JoinComma(tokens) ==
    IF Len(tokens) = 0 THEN <<>>
    ELSE IF Len(tokens) = 1 THEN tokens[1]
    ELSE tokens[1] \o <<",", " ">> \o JoinComma(Tail(tokens))

scenarioText ==
    <<"I","n","g","r","e","d","i","e","n","t","s",":"," ","w","h","e","a","t"," ","f","l","o","u","r",","," ","s","u","g","a","r",","," ","m","i","l","k",","," ","s","o","y"," ","l","e","c","i","t","h","i","n","."," ","C","o","n","t","a","i","n","s",":"," ","w","h","e","a","t",","," ","m","i","l","k",","," ","s","o","y",".">>

EngineTexts ==
    {<<"I","n","g","r","e","d","i","e","n","t","s",":"," ">> \o JoinComma(tokens) \o tail :
        tokens \in SeqsUpTo(IngredientPool, MaxIngredients), tail \in LabelTails}
    \cup {scenarioText}

Dairy == <<"D","a","i","r","y","-","f","r","e","e">>

milkOnly == Profile("milkOnly", <<Milk>>, <<>>, <<>>, <<>>, FALSE)
milkStrict == Profile("milkStrict", <<Milk>>, <<>>, <<>>, <<>>, TRUE)
soyOnly == Profile("soyOnly", <<Soy>>, <<>>, <<>>, <<>>, FALSE)
milkWheat == Profile("milkWheat", <<Milk, Wheat>>, <<>>, <<>>, <<>>, FALSE)
dairyFree == Profile("dairyFree", <<>>, <<>>, <<Dairy>>, <<>>, FALSE)
noButter == Profile("noButter", <<>>, <<>>, <<>>, <<butter>>, FALSE)
blankAndLong == Profile("blankAndLong", <<>>, <<>>, <<>>,
                        <<<<" "," ">>, <<"O","a","t"," ","M","i","l","k"," ","L","a","t","t","e">>>>, FALSE)
everything == Profile("everything", <<Milk>>, <<<<"L","e","c","i","t","h","i","n">>>>,
                      <<Dairy, <<"C","a","r","n","i","v","o","r","e">>>>, <<<<"M","I","L","K">>>>, TRUE)
nothing == Profile("nothing", <<>>, <<>>, <<>>, <<>>, FALSE)

EngineProfiles == {milkOnly, milkStrict, soyOnly, milkWheat, dairyFree, noButter,
                   blankAndLong, everything, nothing}

EvaluateOne == \E profile \in EngineProfiles : EvaluateProfiles(<<profile>>)

SpecEngine == InitLabel(EngineTexts) /\ [][ParseLabel \/ EvaluateOne]_vars

\* the findings of the evaluated profile that satisfy P
FindingsWhere(P(_)) ==
    {i \in 1..Len(policyResults[1].findings) : P(policyResults[1].findings[i])}

\* the text t occurs in the matched text of f, case-insensitively
Mentions(f, t) == Includes(ToLower(f.matchedText), t)

\* statement and allergy match as the Contains / May contain loops test it
StatementMatches(statement, allergy) ==
    Includes(statement, ToLower(allergy)) \/ Includes(ToLower(allergy), statement)

\* C1: the status of every result is UNSAFE if some finding is UNSAFE,
\* otherwise CAUTION if some finding is CAUTION, otherwise SAFE; a result
\* without findings is SAFE and a SAFE result carries no finding.
C1_StatusAggregation ==
    pc = "done" =>
        \A i \in 1..Len(policyResults) :
            LET r == policyResults[i]
                severities == {r.findings[k].severity : k \in 1..Len(r.findings)}
            IN /\ r.status = IF "UNSAFE" \in severities THEN "UNSAFE"
                             ELSE IF "CAUTION" \in severities THEN "CAUTION"
                             ELSE "SAFE"
               /\ r.findings = <<>> => r.status = "SAFE"
               /\ r.status = "SAFE" => r.findings = <<>>

\* a result that carries a CAUTION and an UNSAFE finding
C1_Witness ==
    /\ pc = "done"
    /\ \E j, k \in 1..Len(policyResults[1].findings) :
          /\ policyResults[1].findings[j].severity = "CAUTION"
          /\ policyResults[1].findings[k].severity = "UNSAFE"
    /\ policyResults[1].status = "UNSAFE"

\* C2: for the scenario label and a profile allergic to Milk and Wheat the
\* result is UNSAFE with allergenCount >= 2 and carries a finding with
\* canonicalTerm Milk, source contains and confidence 1.0, and one with
\* canonicalTerm Wheat and source contains.
C2_ScenarioContainsFindings ==
    (pc = "done" /\ inputText = scenarioText /\ inputProfiles = <<milkWheat>>) =>
        LET fromContains(allergy) ==
                LET P(f) == /\ f.canonicalTerm = allergy
                            /\ f.source = "contains"
                            /\ f.confidence = 100
                IN FindingsWhere(P) # {}
        IN /\ policyResults[1].status = "UNSAFE"
           /\ policyResults[1].allergenCount >= 2
           /\ fromContains(Milk)
           /\ fromContains(Wheat)

\* C3: for a profile whose only allergy is Milk no finding about a token
\* "peanut butter" has canonicalTerm Milk, and for a profile whose only
\* allergy is Soy no finding about a token "sunflower lecithin" has
\* canonicalTerm Soy; a label of such tokens alone gives no finding at all.
C3_FalsePositiveExclusions ==
    pc = "done" =>
        LET excluded(allergy, token) ==
                LET P(f) == f.canonicalTerm = allergy /\ Mentions(f, token)
                    onlyToken == \A i \in 1..Len(parsedLabel.ingredients) :
                                    Includes(parsedLabel.ingredients[i], token)
                IN allAllergiesOf(inputProfiles[1]) = <<allergy>> =>
                      /\ FindingsWhere(P) = {}
                      /\ ( /\ onlyToken
                           /\ parsedLabel.containsStatements = <<>>
                           /\ parsedLabel.mayContainStatements = <<>> )
                           => checkAllergens(parsedLabel, inputProfiles[1],
                                             parsedLabel.normalizedText) = <<>>
        IN /\ excluded(Milk, peanutButter)
           /\ excluded(Soy, sunflowerLecithin)

\* "peanut butter" evaluated for the Milk-only profile
C3_Witness ==
    /\ pc = "done"
    /\ inputProfiles = <<milkOnly>>
    /\ parsedLabel.ingredients = <<peanutButter, <<"m","i","l","k">>>>
    /\ Len(policyResults[1].findings) = 1
    /\ policyResults[1].findings[1].matchedText = <<"m","i","l","k">>

\* C4: for a profile holding the Dairy-free preference no DIETARY finding of
\* severity UNSAFE is about a token "oat milk" or "almond butter", although
\* "milk" and "butter" are violation terms of the rule.
C4_PlantBasedExceptions ==
    (pc = "done" /\ Dairy \in Range(inputProfiles[1].preferences)) =>
        LET P(f) == /\ f.kind = "DIETARY"
                    /\ f.severity = "UNSAFE"
                    /\ Mentions(f, oatMilk) \/ Mentions(f, almondButter)
        IN /\ FindingsWhere(P) = {}
           /\ <<"m","i","l","k">> \in Range(ruleDairyFree.violationTerms)
           /\ butter \in Range(ruleDairyFree.violationTerms)

\* a label of the two plant-based tokens: no violation is reported
C4_Witness ==
    /\ pc = "done"
    /\ inputProfiles = <<dairyFree>>
    /\ parsedLabel.ingredients = <<oatMilk, almondButter>>
    /\ policyResults[1].dietaryCount = 0
    /\ policyResults[1].status = "SAFE"

\* C5: every may_contain finding is an ALLERGEN finding of confidence 0.6 for
\* a May contain statement that matches an allergy of the profile, UNSAFE
\* exactly when treatMayContainAsUnsafe is set and CAUTION otherwise; no two
\* may_contain findings are for the same allergen; and when a statement
\* matches and the result has may_contain findings only, the status is
\* UNSAFE with the flag and CAUTION without it.
C5_MayContainFindings ==
    pc = "done" =>
        LET fs == policyResults[1].findings
            profile == inputProfiles[1]
            expected == IF profile.treatMayContainAsUnsafe THEN "UNSAFE" ELSE "CAUTION"
            may == {i \in 1..Len(fs) : fs[i].source = "may_contain"}
            matching ==
                \E k \in 1..Len(parsedLabel.mayContainStatements) :
                    \E a \in Range(allAllergiesOf(profile)) :
                        StatementMatches(parsedLabel.mayContainStatements[k], a)
        IN /\ \A i \in may :
                /\ fs[i].kind = "ALLERGEN"
                /\ fs[i].confidence = 60
                /\ fs[i].severity = expected
                /\ fs[i].matchedText \in Range(parsedLabel.mayContainStatements)
                /\ fs[i].canonicalTerm \in Range(allAllergiesOf(profile))
                /\ StatementMatches(fs[i].matchedText, fs[i].canonicalTerm)
           /\ \A i, j \in may :
                ToLower(fs[i].canonicalTerm) = ToLower(fs[j].canonicalTerm) => i = j
           /\ (matching /\ may = 1..Len(fs)) => policyResults[1].status = expected

\* two statements match Milk, one finding, and the flag makes it UNSAFE
C5_Witness ==
    /\ pc = "done"
    /\ inputProfiles = <<milkStrict>>
    /\ parsedLabel.mayContainStatements = <<<<"m","i","l","k">>, <<"m","i","l","k"," ","p","o","w","d","e","r">>>>
    /\ Len(policyResults[1].findings) = 1
    /\ policyResults[1].findings[1].source = "may_contain"
    /\ policyResults[1].findings[1].severity = "UNSAFE"
    /\ policyResults[1].status = "UNSAFE"

\* the ingredient tokens that match the keyword, in label order
MatchingTokens(lowerKeyword) ==
    {i \in 1..Len(parsedLabel.ingredients) :
        LET lower == Trim(ToLower(parsedLabel.ingredients[i]))
        IN Includes(lower, lowerKeyword) \/ Includes(lowerKeyword, lower)}

\* C6 (as stated): for every non-blank forbidden keyword, every ingredient
\* token that contains the keyword or is contained in it has a
\* FORBIDDEN_KEYWORD finding of confidence 1.0 for that token.
C6_EveryMatchingTokenReported ==
    pc = "done" =>
        \A k \in 1..Len(inputProfiles[1].forbiddenKeywords) :
            LET keyword == inputProfiles[1].forbiddenKeywords[k]
                lowerKeyword == Trim(ToLower(keyword))
            IN lowerKeyword # <<>> =>
                 \A i \in MatchingTokens(lowerKeyword) :
                     LET P(f) == /\ f.kind = "FORBIDDEN_KEYWORD"
                                 /\ f.canonicalTerm = keyword
                                 /\ f.matchedText = parsedLabel.ingredients[i]
                                 /\ f.confidence = 100
                     IN FindingsWhere(P) # {}

\* C6 (amended): for every non-blank forbidden keyword, the first ingredient
\* token in label order that contains the keyword or is contained in it
\* (case-insensitive) has the one FORBIDDEN_KEYWORD finding of confidence 1.0
\* for that keyword, and no token has one when no token matches; a blank
\* keyword has no finding.
C6_FirstMatchingTokenReported ==
    pc = "done" =>
        \A k \in 1..Len(inputProfiles[1].forbiddenKeywords) :
            LET keyword == inputProfiles[1].forbiddenKeywords[k]
                lowerKeyword == Trim(ToLower(keyword))
                fs == policyResults[1].findings
                forKeyword(f) == f.kind = "FORBIDDEN_KEYWORD" /\ f.canonicalTerm = keyword
                fromToken(f) == forKeyword(f) /\ f.confidence = 100
                hits == MatchingTokens(lowerKeyword)
            IN /\ lowerKeyword = <<>> => FindingsWhere(forKeyword) = {}
               /\ (lowerKeyword # <<>> /\ hits = {}) => FindingsWhere(fromToken) = {}
               /\ (lowerKeyword # <<>> /\ hits # {}) =>
                     /\ Cardinality(FindingsWhere(fromToken)) = 1
                     /\ \A i \in FindingsWhere(fromToken) :
                           /\ fs[i].matchedText = parsedLabel.ingredients[Min(hits)]
                           /\ fs[i].severity = "UNSAFE"

\* two tokens contain the keyword and only the first is reported
C6_Witness ==
    /\ pc = "done"
    /\ inputProfiles = <<noButter>>
    /\ parsedLabel.ingredients = <<peanutButter, almondButter>>
    /\ policyResults[1].keywordCount = 1
    /\ policyResults[1].findings[1].matchedText = peanutButter

----------------------------------------------------------------------------
(* several profiles evaluated against one label *)

MaxProfiles == 3

ProfilesTexts == {<<"I","n","g","r","e","d","i","e","n","t","s",":"," ","m","i","l","k",","," ","p","e","a","n","u","t"," ","b","u","t","t","e","r","."," ","M","a","y"," ","c","o","n","t","a","i","n",":"," ","s","o","y">>,
                  <<"I","n","g","r","e","d","i","e","n","t","s",":"," ","o","a","t"," ","m","i","l","k",","," ","s","u","n","f","l","o","w","e","r"," ","l","e","c","i","t","h","i","n","."," ","C","o","n","t","a","i","n","s",":"," ","m","i","l","k">>,
                  scenarioText}

ProfilePool == {milkStrict, soyOnly, dairyFree, noButter}

EvaluateMany == \E profiles \in SeqsUpTo(ProfilePool, MaxProfiles) : EvaluateProfiles(profiles)

SpecProfiles == InitLabel(ProfilesTexts) /\ [][ParseLabel \/ EvaluateMany]_vars

----------------------------------------------------------------------------
(* escalateInferredRisks(results, inferredRisks) *)

MaxRisks == 2
MaxResults == 2

RiskPool == {<<"p","e","a","n","u","t">>, <<"T","r","e","e"," ","N","u","t","s">>, <<"M","I","L","K"," ","p","o","w","d","e","r">>, <<"g","l","u","t","e","n">>,
             <<"c","o","r","n">>}

\* ProfileResults as the pipeline builds them
safeResult ==
    [profileId |-> "p1", name |-> "Ann", safe |-> TRUE, status |-> "safe",
     reasons |-> <<>>, matchedAllergens |-> <<>>, matchedKeywords |-> <<>>,
     matchedPreferences |-> <<>>]
cautionResult ==
    [profileId |-> "p2", name |-> "Ben", safe |-> FALSE, status |-> "caution",
     reasons |-> <<[template |-> "\"${ingredient}\" may be ${rule.reasonTemplate} - check if compatible with ${rule.label}",
                    args |-> <<<<"n","a","t","u","r","a","l"," ","f","l","a","v","o","r","s">>, "contains dairy", <<"D","a","i","r","y","-","F","r","e","e">>>>]>>,
     matchedAllergens |-> <<>>, matchedKeywords |-> <<>>,
     matchedPreferences |-> <<<<"D","a","i","r","y","-","F","r","e","e",":"," ","n","a","t","u","r","a","l"," ","f","l","a","v","o","r","s">>>>]
unsafeResult ==
    [profileId |-> "p3", name |-> "Cy", safe |-> FALSE, status |-> "unsafe",
     reasons |-> <<[template |-> "\"${ingredient}\" is a ${canonical} derivative - ${canonical} allergen",
                    args |-> <<<<"s","o","y">>, Soy>>]>>,
     matchedAllergens |-> <<<<"s","o","y">>>>, matchedKeywords |-> <<>>,
     matchedPreferences |-> <<>>]

ResultPool == {safeResult, cautionResult, unsafeResult}

InitEscalate ==
    /\ pc = "start"
    /\ inputRisks \in SeqsUpTo(RiskPool, MaxRisks)
    /\ priorResults \in SeqsUpTo(ResultPool, MaxResults)
    /\ profileResults = <<>>
    /\ escalated = <<>>
    /\ inputText = <<>>
    /\ IdleSpans
    /\ IdleEngine
    /\ IdleScan
    /\ IdleServices

Escalate ==
    /\ pc = "start"
    /\ profileResults' = escalateInferredRisks(priorResults, inputRisks).results
    /\ escalated' = escalateInferredRisks(priorResults, inputRisks).escalatedItems
    /\ pc' = "done"
    /\ UNCHANGED <<inputText, inputTerm, spanResult, parsedLabel, inputProfiles,
                   policyResults, inputRisks, priorResults>>
    /\ UNCHANGED <<analysisVars, sessionVars, mergeVars, serviceVars>>

SpecEscalate == InitEscalate /\ [][Escalate]_vars

\* the allowlist test as a relation between a risk and the allowlist:
\* case-insensitive substring in either direction
MatchesAllowlist(risk) ==
    \E a \in Range(VERY_BAD_ALLERGIES) :
        Includes(ToLower(risk), a) \/ Includes(a, ToLower(risk))

MatchingRisks == SelectSeq(inputRisks, MatchesAllowlist)

\* C10: when some inferred risk matches the very-bad-allergy allowlist, every
\* returned profile result is unsafe (safe = FALSE) whatever its prior status
\* and its matchedAllergens are the prior ones followed by the matching risks;
\* when none matches, the results are returned unchanged and escalatedItems
\* is empty.
C10_EscalationForcesUnsafe ==
    pc = "done" =>
        /\ Len(profileResults) = Len(priorResults)
        /\ MatchingRisks # <<>> =>
             \A i \in 1..Len(priorResults) :
                /\ profileResults[i].status = "unsafe"
                /\ profileResults[i].safe = FALSE
                /\ profileResults[i].matchedAllergens
                     = priorResults[i].matchedAllergens \o MatchingRisks
        /\ MatchingRisks = <<>> =>
             /\ profileResults = priorResults
             /\ escalated = <<>>

\* a safe result escalated by a risk that is a substring of an allowlist
\* entry, next to a risk that matches nothing
C10_Witness ==
    /\ pc = "done"
    /\ inputRisks = <<<<"c","o","r","n">>, <<"p","e","a","n","u","t">>>>
    /\ priorResults = <<safeResult, unsafeResult>>
    /\ profileResults[1].status = "unsafe"
    /\ profileResults[1].matchedAllergens = <<<<"p","e","a","n","u","t">>>>
    /\ profileResults[2].matchedAllergens = <<<<"s","o","y">>, <<"p","e","a","n","u","t">>>>

----------------------------------------------------------------------------
(* updateSessionAttemptCounters(session, isMRR) *)

neverReset(current, isMRR) ==
    Coalesce(current, "manualReviewCount", 0) + (IF isMRR THEN 1 ELSE 0)

\* let manualReviewCount = ...; if (isMRR) += 1 else = 0
manualReviewCountAfter(current, isMRR) ==
    IF isMRR THEN Coalesce(current, "manualReviewCount", 0) + 1 ELSE 0

atEveryThreshold(escalationShown, manualReviewCount) == manualReviewCount >= 3

\* !escalationShown && manualReviewCount >= 3
shouldShowEscalationOf(escalationShown, manualReviewCount) ==
    ~escalationShown /\ manualReviewCount >= 3

noLatch(escalationShown, shouldShowEscalation) == shouldShowEscalation

\* escalationShown || shouldShowEscalation
escalationShownAfter(escalationShown, shouldShowEscalation) ==
    escalationShown \/ shouldShowEscalation

\* the object the function returns
countersAfter(attemptCount, manualReviewCount, escalationShown, shouldShowEscalation) ==
    [attemptCount |-> attemptCount,
     manualReviewCount |-> manualReviewCount,
     escalationShown |-> escalationShownAfter(escalationShown, shouldShowEscalation),
     shouldShowEscalation |-> shouldShowEscalation]

updateSessionAttemptCounters(current, isMRR) ==
    countersAfter(Coalesce(current, "attemptCount", 0) + 1,
                  manualReviewCountAfter(current, isMRR),
                  Coalesce(current, "escalationShown", FALSE),
                  shouldShowEscalationOf(Coalesce(current, "escalationShown", FALSE),
                                         manualReviewCountAfter(current, isMRR)))

\* the three counters of a result, as the caller stores them
counterState(result) == Restrict(result, {"attemptCount", "manualReviewCount", "escalationShown"})

----------------------------------------------------------------------------
(* a scan session: one updateSessionAttemptCounters call per attempt, each *)
(* on the counters the previous call returned                             *)

\* the longest sequence of attempts in one session
MaxAttempts == 7

\* the session objects a first call can receive: the zeroed counters with
\* any of their fields missing
FirstSessions == {Restrict(NewSession, S) : S \in SUBSET DOMAIN NewSession}

InitSession ==
    /\ pc = "start"
    /\ session \in FirstSessions
    /\ calls = <<>>
    /\ shown = <<>>
    /\ persisted = NewSession
    /\ attempts = <<>>
    /\ IdlePipeline
    /\ IdleAnalysis
    /\ IdleMerge
    /\ IdleServices

Returned(isMRR, result) ==
    /\ session' = counterState(result)
    /\ calls' = Append(calls, isMRR)
    /\ shown' = Append(shown, result.shouldShowEscalation)

Attempt(isMRR) ==
    /\ Len(calls) < MaxAttempts
    /\ Returned(isMRR, updateSessionAttemptCounters(session, isMRR))
    /\ UNCHANGED <<pc, persisted, attempts>>
    /\ UNCHANGED <<pipelineVars, analysisVars, mergeVars, serviceVars>>

SpecSession == InitSession /\ [][\E isMRR \in BOOLEAN : Attempt(isMRR)]_vars

\* the number of consecutive isMRR = TRUE calls at the end of the history
TrailingMRR(history) ==
    IF \A i \in 1..Len(history) : history[i]
    THEN Len(history)
    ELSE Len(history) - CHOOSE i \in 1..Len(history) :
                            ~history[i] /\ \A j \in (i+1)..Len(history) : history[j]

AllMRR(n) == [i \in 1..n |-> TRUE]

\* C13 (state part): from zeroed counters, n consecutive MRR calls leave
\* manualReviewCount = n and return shouldShowEscalation = TRUE at the third
\* call only (FALSE, FALSE, TRUE, FALSE for four calls); over any history
\* shouldShowEscalation is TRUE at most once.
C13_StreakAndOnce ==
    /\ calls = AllMRR(Len(calls)) /\ calls # <<>> =>
          /\ session.manualReviewCount = Len(calls)
          /\ \A i \in 1..Len(shown) : shown[i] <=> (i = 3)
    /\ Cardinality({i \in 1..Len(shown) : shown[i]}) <= 1

\* C13 (step part): the value a call returns is TRUE exactly when
\* escalationShown was FALSE before the call and the updated
\* manualReviewCount is >= 3.
C13_ShownExactlyWhen ==
    Len(shown') = Len(shown) + 1 =>
        (shown'[Len(shown')] <=>
            (~Coalesce(session, "escalationShown", FALSE)
             /\ session'.manualReviewCount >= 3))

C15_TrailingRun ==
    /\ Coalesce(session, "manualReviewCount", 0) = TrailingMRR(calls)
    /\ Coalesce(session, "attemptCount", 0) = Len(calls)
    /\ calls # <<>> => DOMAIN session = DOMAIN NewSession

\* a run of two MRR calls after a call that broke the first run
C15_Witness ==
    /\ calls = <<TRUE, FALSE, TRUE, TRUE>>
    /\ session.manualReviewCount = 2
    /\ session.attemptCount = 4

\* C16: a call that is not MRR resets manualReviewCount to 0 and
\* escalationShown to FALSE, and the third call of every later run of three
\* MRR calls returns shouldShowEscalation = TRUE again.
C16_EscalationOncePerStreak ==
    /\ calls # <<>> /\ ~calls[Len(calls)] =>
          /\ session.manualReviewCount = 0
          /\ ~session.escalationShown
    /\ \A i \in 4..Len(calls) :
          ~calls[i-3] /\ calls[i-2] /\ calls[i-1] /\ calls[i] => shown[i]

----------------------------------------------------------------------------
(* updateAndPersistSessionCounters(userId, sessionId, currentCounters, isMRR) *)

\* the most calls made in one session
MaxCalls == 3

incrementDoc(document, fields) ==
    [field \in DOMAIN document |->
        IF field = "attemptCount" THEN document[field] + 1
        ELSE IF field \in DOMAIN fields THEN fields[field] ELSE document[field]]

\* updateDoc(sessionRef, fields): the listed fields replace those of the document
updateDoc(document, fields) ==
    [field \in DOMAIN document |->
        IF field \in DOMAIN fields THEN fields[field] ELSE document[field]]

\* a call up to its await: the counters are computed from the caller's
\* snapshot before anything is written
pendingCall(currentCounters, isMRR) ==
    [currentCounters |-> currentCounters, isMRR |-> isMRR,
     result |-> updateSessionAttemptCounters(currentCounters, isMRR),
     state |-> "writing", wrote |-> FALSE]

resolved(call, wrote) == [call EXCEPT !.state = "returned", !.wrote = wrote]

InitAttempts ==
    /\ pc = "start"
    /\ IdleSession
    /\ IdlePipeline
    /\ IdleAnalysis
    /\ IdleMerge
    /\ IdleServices

\* the caller starts an attempt with the counters it holds
CallUpdate(isMRR) ==
    /\ Len(attempts) < MaxCalls
    /\ attempts' = Append(attempts, pendingCall(session, isMRR))
    /\ calls' = Append(calls, isMRR)
    /\ UNCHANGED <<pc, session, shown, persisted>>
    /\ UNCHANGED <<pipelineVars, analysisVars, mergeVars, serviceVars>>

\* updateDoc resolves, the call returns its counters to the caller
WriteResolves(i) ==
    /\ attempts[i].state = "writing"
    /\ persisted' = updateDoc(persisted, counterState(attempts[i].result))
    /\ attempts' = [attempts EXCEPT ![i] = resolved(attempts[i], TRUE)]
    /\ session' = counterState(attempts[i].result)
    /\ shown' = Append(shown, attempts[i].result.shouldShowEscalation)
    /\ UNCHANGED <<pc, calls>>
    /\ UNCHANGED <<pipelineVars, analysisVars, mergeVars, serviceVars>>

\* Firebase is not configured or updateDoc rejects: the error is logged and
\* the call returns the same counters
WriteSkipped(i) ==
    /\ attempts[i].state = "writing"
    /\ attempts' = [attempts EXCEPT ![i] = resolved(attempts[i], FALSE)]
    /\ session' = counterState(attempts[i].result)
    /\ shown' = Append(shown, attempts[i].result.shouldShowEscalation)
    /\ UNCHANGED <<pc, calls, persisted>>
    /\ UNCHANGED <<pipelineVars, analysisVars, mergeVars, serviceVars>>

NextAttempts ==
    \/ \E isMRR \in BOOLEAN : CallUpdate(isMRR)
    \/ \E i \in 1..Len(attempts) : WriteResolves(i)
    \/ \E i \in 1..Len(attempts) : WriteSkipped(i)

SpecAttempts == InitAttempts /\ [][NextAttempts]_vars

AllReturned == \A i \in 1..Len(attempts) : attempts[i].state = "returned"

\* every call received the counters the previous call returned
Serialized ==
    \A i \in 1..Len(attempts) :
        attempts[i].currentCounters
          = IF i = 1 THEN NewSession ELSE counterState(attempts[i-1].result)

\* at least two calls, all made with the same snapshot
SameSnapshot ==
    /\ Len(attempts) >= 2
    /\ \A i \in 1..Len(attempts) : attempts[i].currentCounters = attempts[1].currentCounters

SomeWrote == \E i \in 1..Len(attempts) : attempts[i].wrote

----------------------------------------------------------------------------
(* mergeAnalysis(local, server) and applyUserOverrideToResult(result, overridePayload) *)

\* Math.max of two numbers; confidences are in hundredths
Max2(a, b) == IF a >= b THEN a ELSE b

preferLocal(localResult, serverResult, field) ==
    Coalesce(localResult, field, Coalesce(serverResult, field, <<>>))

\* server.field ?? local.field ?? []
preferServer(localResult, serverResult, field) ==
    Coalesce(serverResult, field, Coalesce(localResult, field, <<>>))

mergeAnalysis(localResult, serverResult) ==
    [menuItems |-> preferServer(localResult, serverResult, "menuItems"),
     allergensDetected |-> preferServer(localResult, serverResult, "allergensDetected"),
     dietaryFlags |-> preferServer(localResult, serverResult, "dietaryFlags"),
     confidence |-> Max2(Coalesce(serverResult, "confidence", 0),
                         Coalesce(localResult, "confidence", 0))]

\* Array.from(new Set(list)): the first occurrence of every element, in order
uniqueInOrder(list) ==
    AtIndexes(list, {i \in 1..Len(list) : \A j \in 1..(i-1) : list[j] # list[i]})

appendUserCorrected(flags) == Append(flags, "user_corrected")

\* Array.from(new Set([...flags, 'user_corrected']))
withUserCorrected(flags) == uniqueInOrder(Append(flags, "user_corrected"))

carriesAllergenField(payload) == "allergensDetected" \in DOMAIN payload

\* overridePayload.allergensDetected && overridePayload.allergensDetected.length > 0
carriesAllergens(payload) ==
    "allergensDetected" \in DOMAIN payload /\ Len(payload.allergensDetected) > 0

markCorrected(mergedResult, payload) ==
    IF carriesAllergens(payload)
    THEN [mergedResult EXCEPT !.dietaryFlags = withUserCorrected(mergedResult.dietaryFlags)]
    ELSE mergedResult

applyUserOverrideToResult(result, payload) ==
    markCorrected(mergeAnalysis(result, payload), payload)

----------------------------------------------------------------------------
(* the analysis results the helpers are called with *)

\* the longest dietaryFlags list
MaxFlags == 2

UserCorrected == "user_corrected"
FlagPool == {"vegan", UserCorrected}
FlagLists == SeqsUpTo(FlagPool, MaxFlags)

soyMatch == [allergenId |-> "soy", severity |-> 50, matches |-> <<"soy">>]
peanutMatch == [allergenId |-> "peanuts", severity |-> 90, matches |-> <<"peanut">>]
localItem == [rawText |-> "local item"]
serverItem == [rawText |-> "server item"]

\* a complete AnalysisResult
FullResults(menus, allergenLists, confidences) ==
    {[menuItems |-> m, allergensDetected |-> a, dietaryFlags |-> f, confidence |-> c] :
        m \in menus, a \in allergenLists, f \in FlagLists, c \in confidences}

\* Partial<AnalysisResult>: a complete result without some of its fields
PartialResults(menus, allergenLists, confidences) ==
    {Restrict(r, S) : r \in FullResults(menus, allergenLists, confidences),
                      S \in SUBSET {"menuItems", "allergensDetected", "dietaryFlags", "confidence"}}

LocalResults == PartialResults({<<localItem>>}, {<<>>, <<soyMatch>>}, {50, 85})
ServerResults == PartialResults({<<serverItem>>}, {<<>>, <<peanutMatch>>}, {0, 90})

InitMerge ==
    /\ pc = "start"
    /\ local \in LocalResults
    /\ server \in ServerResults
    /\ merged = <<>>
    /\ baseResult = <<>> /\ overridePayload = <<>> /\ overridden = <<>>
    /\ IdlePipeline
    /\ IdleAnalysis
    /\ IdleSession
    /\ IdleServices

Merge ==
    /\ pc = "start"
    /\ merged' = mergeAnalysis(local, server)
    /\ pc' = "done"
    /\ UNCHANGED <<local, server, baseResult, overridePayload, overridden>>
    /\ UNCHANGED <<pipelineVars, analysisVars, sessionVars, serviceVars>>

SpecMerge == InitMerge /\ [][Merge]_vars

ListFields == {"menuItems", "allergensDetected", "dietaryFlags"}

\* C18: each list field of the merge is the server's if the server carries
\* it, else the local one, else empty; confidence is the larger of the two
\* (a missing one counting 0), so never below either input's; merging with an
\* empty server object returns the local values.
C18_ServerWinsMaxConfidence ==
    pc = "done" =>
        /\ DOMAIN merged = ListFields \cup {"confidence"}
        /\ \A f \in ListFields :
              merged[f] = IF f \in DOMAIN server THEN server[f]
                          ELSE IF f \in DOMAIN local THEN local[f]
                          ELSE <<>>
        /\ "confidence" \in DOMAIN server => merged.confidence >= server.confidence
        /\ "confidence" \in DOMAIN local => merged.confidence >= local.confidence
        /\ \/ "confidence" \in DOMAIN server /\ merged.confidence = server.confidence
           \/ "confidence" \in DOMAIN local /\ merged.confidence = local.confidence
           \/ merged.confidence = 0
        /\ server = <<>> =>
              /\ \A f \in DOMAIN local \cap ListFields : merged[f] = local[f]
              /\ "confidence" \in DOMAIN local =>
                    merged.confidence = Max2(local.confidence, 0)

\* the server carries menu items and a lower confidence, the local result
\* the allergens and the higher confidence
C18_Witness ==
    /\ pc = "done"
    /\ DOMAIN server = {"menuItems", "confidence"}
    /\ DOMAIN local = {"menuItems", "allergensDetected", "confidence"}
    /\ server.confidence = 0
    /\ local.confidence = 85
    /\ local.allergensDetected = <<soyMatch>>
    /\ merged = [menuItems |-> <<serverItem>>, allergensDetected |-> <<soyMatch>>,
                 dietaryFlags |-> <<>>, confidence |-> 85]

----------------------------------------------------------------------------
(* applyUserOverrideToResult applied to a result, then to its own results *)

\* the most applications of one override
MaxApplications == 3

BaseResults == FullResults({<<localItem>>}, {<<>>, <<soyMatch>>}, {85})
OverridePayloads == ServerResults

InitOverride ==
    /\ pc = "start"
    /\ baseResult \in BaseResults
    /\ overridePayload \in OverridePayloads
    /\ overridden = <<>>
    /\ local = <<>> /\ server = <<>> /\ merged = <<>>
    /\ IdlePipeline
    /\ IdleAnalysis
    /\ IdleSession
    /\ IdleServices

\* the result the next application starts from
currentResult == IF overridden = <<>> THEN baseResult ELSE overridden[Len(overridden)]

ApplyOverride ==
    /\ Len(overridden) < MaxApplications
    /\ overridden' = Append(overridden, applyUserOverrideToResult(currentResult, overridePayload))
    /\ pc' = "done"
    /\ UNCHANGED <<local, server, merged, baseResult, overridePayload>>
    /\ UNCHANGED <<pipelineVars, analysisVars, sessionVars, serviceVars>>

SpecOverride == InitOverride /\ [][ApplyOverride]_vars

\* the override carries at least one allergen
OverridesAllergens ==
    /\ "allergensDetected" \in DOMAIN overridePayload
    /\ overridePayload.allergensDetected # <<>>

\* neither argument carries the flag already
FlagIsNew ==
    /\ UserCorrected \notin Range(baseResult.dietaryFlags)
    /\ "dietaryFlags" \in DOMAIN overridePayload =>
          UserCorrected \notin Range(overridePayload.dietaryFlags)

CountOf(flags, flag) == Cardinality({i \in 1..Len(flags) : flags[i] = flag})

\* C19: the first application returns mergeAnalysis(base, override), with
\* "user_corrected" added to dietaryFlags exactly when the override carries
\* a non-empty allergen list: without one the merge is returned as it is,
\* with one the flags are those of the merge plus the flag and the other
\* fields are those of the merge.
C19_FlagIffAllergenOverride ==
    overridden # <<>> =>
        /\ \A f \in {"menuItems", "allergensDetected", "confidence"} :
              overridden[1][f] = mergeAnalysis(baseResult, overridePayload)[f]
        /\ ~OverridesAllergens =>
              overridden[1] = mergeAnalysis(baseResult, overridePayload)
        /\ OverridesAllergens =>
              Range(overridden[1].dietaryFlags)
                = Range(mergeAnalysis(baseResult, overridePayload).dietaryFlags)
                    \cup {UserCorrected}
        /\ FlagIsNew =>
              (UserCorrected \in Range(overridden[1].dietaryFlags) <=> OverridesAllergens)

\* an override that replaces the allergens of a result without flags
C19_Witness ==
    /\ Len(overridden) = 1
    /\ baseResult.dietaryFlags = <<>>
    /\ baseResult.allergensDetected = <<soyMatch>>
    /\ overridePayload = [allergensDetected |-> <<peanutMatch>>]
    /\ overridden[1].allergensDetected = <<peanutMatch>>
    /\ overridden[1].dietaryFlags = <<UserCorrected>>

\* C20: for an override with a non-empty allergen list, every application
\* of it to its own result has exactly one "user_corrected" in dietaryFlags
\* and every application after the first returns the first result.
C20_OverrideIdempotent ==
    OverridesAllergens =>
        \A k \in 1..Len(overridden) :
            /\ CountOf(overridden[k].dietaryFlags, UserCorrected) = 1
            /\ overridden[k] = overridden[1]

\* three applications on a result that already carries another flag
C20_Witness ==
    /\ Len(overridden) = 3
    /\ baseResult.dietaryFlags = <<"vegan">>
    /\ overridePayload = [allergensDetected |-> <<peanutMatch>>]
    /\ overridden[3].dietaryFlags = <<"vegan", UserCorrected>>
    /\ overridden[3] = overridden[1]

----------------------------------------------------------------------------
(* server analysis service: analyzeExtractedText, analyzeImageFull *)

\* value && ...: a string field is truthy when it is present and not empty
Truthy(obj, field) == field \in DOMAIN obj /\ obj[field] # <<>>

\* p.field || [] and p.treatMayContainAsUnsafe ?? false
toUserProfile(p) ==
    [id |-> p.id,
     name |-> p.name,
     allergies |-> Coalesce(p, "allergies", <<>>),
     customAllergies |-> Coalesce(p, "customAllergies", <<>>),
     preferences |-> Coalesce(p, "preferences", <<>>),
     customPreferences |-> Coalesce(p, "customPreferences", <<>>),
     forbiddenKeywords |-> Coalesce(p, "forbiddenKeywords", <<>>),
     treatMayContainAsUnsafe |-> Coalesce(p, "treatMayContainAsUnsafe", FALSE)]

userProfilesOf(profiles) == [i \in 1..Len(profiles) |-> toUserProfile(profiles[i])]

\* the MatchedIngredient type of a finding kind
ingredientTypeOf(kind) ==
    IF kind = "ALLERGEN" THEN "allergen"
    ELSE IF kind = "DIETARY" THEN "preference"
    ELSE "keyword"

\* what a finding pushes to its match list
matchedEntryOf(finding) ==
    IF finding.kind = "DIETARY"
    THEN finding.canonicalTerm \o <<":", " ">> \o finding.matchedText
    ELSE finding.matchedText

matchedOfKind(findings, kind) ==
    [k \in 1..countKind(findings, kind) |->
        matchedEntryOf(AtIndexes(findings, {i \in 1..Len(findings) : findings[i].kind = kind})[k])]

statusWordOf(status) ==
    IF status = "UNSAFE" THEN "unsafe" ELSE IF status = "CAUTION" THEN "caution" ELSE "safe"

profileResultOf(pr) ==
    [profileId |-> pr.profileId,
     name |-> pr.profileName,
     safe |-> statusWordOf(pr.status) = "safe",
     status |-> statusWordOf(pr.status),
     reasons |-> [i \in 1..Len(pr.findings) |-> pr.findings[i].reason],
     matchedAllergens |-> matchedOfKind(pr.findings, "ALLERGEN"),
     matchedKeywords |-> matchedOfKind(pr.findings, "FORBIDDEN_KEYWORD"),
     matchedPreferences |-> matchedOfKind(pr.findings, "DIETARY")]

\* list.find(m => m.name.toLowerCase() === name.toLowerCase() && m.type === type)
existingAt(list, name, type) ==
    {i \in 1..Len(list) : ToLower(list[i].name) = ToLower(name) /\ list[i].type = type}

addToExisting(list, i, profileId) ==
    IF profileId \in Range(list[i].profileIds)
    THEN list
    ELSE [list EXCEPT ![i].profileIds = Append(@, profileId)]

addMatchedIngredient(list, name, type, profileId) ==
    IF existingAt(list, name, type) # {}
    THEN addToExisting(list, Min(existingAt(list, name, type)), profileId)
    ELSE Append(list, [name |-> name, type |-> type, profileIds |-> <<profileId>>])

\* the findings of one result, added in order
RECURSIVE addFindings(_, _, _)
addFindings(list, findings, profileId) ==
    IF findings = <<>> THEN list
    ELSE addFindings(addMatchedIngredient(list, Head(findings).matchedText,
                                          ingredientTypeOf(Head(findings).kind), profileId),
                     Tail(findings), profileId)

\* the results in order
RECURSIVE addResults(_, _)
addResults(list, results) ==
    IF results = <<>> THEN list
    ELSE addResults(addFindings(list, Head(results).findings, Head(results).profileId),
                    Tail(results))

\* the AnalysisResult built from the engine's results
analysisOf(rawText, label, results) ==
    [ingredients |-> label.ingredients,
     results |-> [i \in 1..Len(results) |-> profileResultOf(results[i])],
     matchedIngredients |-> addResults(<<>>, results),
     rawExtractedText |-> rawText]

evaluatedText(rawText, label, profiles) ==
    analysisOf(rawText, label, evaluateLabelForProfiles(label, profiles))

analyzeExtractedText(rawText, profiles) ==
    evaluatedText(rawText, parseIngredientLabel(rawText), userProfilesOf(profiles))

UNREADABLE_WARNING == <<"C","o","u","l","d"," ","n","o","t"," ","r","e","a","d"," ","i","n","g","r","e","d","i","e","n","t"," ","t","e","x","t"," ","f","r","o","m"," ","t","h","e"," ","i","m","a","g","e","."," ","P","l","e","a","s","e"," ","t","r","y"," ","a","g","a","i","n"," ","w","i","t","h"," ","a"," ","c","l","e","a","r","e","r"," ","p","h","o","t","o",".">>
LOW_CONFIDENCE_WARNING == <<"L","o","w"," ","c","o","n","f","i","d","e","n","c","e"," ","i","n"," ","t","e","x","t"," ","e","x","t","r","a","c","t","i","o","n","."," ","S","o","m","e"," ","i","n","g","r","e","d","i","e","n","t","s"," ","m","a","y"," ","h","a","v","e"," ","b","e","e","n"," ","m","i","s","r","e","a","d",".">>
MEDIUM_CONFIDENCE_WARNING == <<"S","o","m","e"," ","t","e","x","t"," ","w","a","s"," ","p","a","r","t","i","a","l","l","y"," ","u","n","c","l","e","a","r","."," ","P","l","e","a","s","e"," ","v","e","r","i","f","y"," ","t","h","e"," ","r","e","s","u","l","t","s",".">>

withoutText(ocrResult) == ~Truthy(ocrResult, "raw_text")

\* ocr.type === "unreadable" || !ocr.raw_text
isUnreadable(ocrResult) ==
    ocrResult.type = "unreadable" \/ ~Truthy(ocrResult, "raw_text")

notesOf(ocrResult) == IF Truthy(ocrResult, "notes") THEN <<ocrResult.notes>> ELSE <<>>

\* the result returned without running the engine
unreadableResult(ocrResult, profiles) ==
    [ingredients |-> <<>>,
     results |-> [i \in 1..Len(profiles) |->
                    [profileId |-> profiles[i].id, name |-> profiles[i].name,
                     safe |-> TRUE, status |-> "safe", reasons |-> <<>>,
                     matchedAllergens |-> <<>>, matchedKeywords |-> <<>>,
                     matchedPreferences |-> <<>>]],
     matchedIngredients |-> <<>>,
     rawExtractedText |-> <<>>,
     warnings |-> <<UNREADABLE_WARNING>> \o notesOf(ocrResult)]

withContains(ocrResult, text) ==
    IF Truthy(ocrResult, "contains_statement")
       /\ ~Includes(ToLower(text), <<"c","o","n","t","a","i","n","s",":">>)
    THEN text \o <<"\n">> \o <<"C","o","n","t","a","i","n","s",":"," ">> \o ocrResult.contains_statement
    ELSE text

withMayContain(ocrResult, text) ==
    IF Truthy(ocrResult, "may_contain_statement")
       /\ ~Includes(ToLower(text), <<"m","a","y"," ","c","o","n","t","a","i","n">>)
    THEN text \o <<"\n">> \o <<"M","a","y"," ","c","o","n","t","a","i","n",":"," ">> \o ocrResult.may_contain_statement
    ELSE text

\* the label text with the Contains / May contain statements appended
fullTextOf(ocrResult) == withMayContain(ocrResult, withContains(ocrResult, ocrResult.raw_text))

confidenceWarnings(ocrResult) ==
    (IF ocrResult.confidence = "low" THEN <<LOW_CONFIDENCE_WARNING>> ELSE <<>>)
    \o (IF ocrResult.confidence = "medium" THEN <<MEDIUM_CONFIDENCE_WARNING>> ELSE <<>>)

warningsOf(ocrResult) == confidenceWarnings(ocrResult) \o notesOf(ocrResult)

\* { ...result, rawExtractedText, ocrConfidence, warnings or undefined }
withOcr(result, fullText, confidence, warnings) ==
    IF warnings # <<>>
    THEN [ingredients |-> result.ingredients, results |-> result.results,
          matchedIngredients |-> result.matchedIngredients,
          rawExtractedText |-> fullText, ocrConfidence |-> confidence,
          warnings |-> warnings]
    ELSE [ingredients |-> result.ingredients, results |-> result.results,
          matchedIngredients |-> result.matchedIngredients,
          rawExtractedText |-> fullText, ocrConfidence |-> confidence]

----------------------------------------------------------------------------
(* analyzeImageFull(base64Image, profiles, apiKey): the OCR collaborator   *)
(* resolves to an OCRResult or throws, then the result is analysed         *)

\* the most profiles handed to one analysis
MaxScanProfiles == 2

\* ProfileInfo objects: without and with the optional fields
annInfo == [id |-> "ann", name |-> "Ann", allergies |-> <<Milk>>, preferences |-> <<>>]
benInfo ==
    [id |-> "ben", name |-> "Ben", allergies |-> <<Soy>>, preferences |-> <<Dairy>>,
     forbiddenKeywords |-> <<<<"s","u","g","a","r">>>>, treatMayContainAsUnsafe |-> TRUE]
ScanProfiles == {annInfo, benInfo}

sugarLabel == <<"I","n","g","r","e","d","i","e","n","t","s",":"," ","s","u","g","a","r",","," ","s","a","l","t">>
milkLabel == <<"I","n","g","r","e","d","i","e","n","t","s",":"," ","s","u","g","a","r",","," ","m","i","l","k">>
glareNote == <<"g","l","a","r","e"," ","o","n"," ","t","h","e"," ","l","a","b","e","l">>

OcrTypes == {"ingredient_label", "menu", "unreadable"}
OcrConfidences == {"high", "medium", "low"}

\* the optional fields of an OCRResult; a null field is a missing one
OcrStatements ==
    [contains_statement |-> <<"m","i","l","k">>, may_contain_statement |-> <<"s","o","y">>, notes |-> glareNote]

\* results that cannot be analysed: type "unreadable", or raw_text null or empty
OcrUnreadable ==
    {[type |-> "unreadable", raw_text |-> r, confidence |-> c] : r \in {<<>>, sugarLabel}, c \in OcrConfidences}
    \cup {[type |-> "unreadable", raw_text |-> <<>>, confidence |-> c, notes |-> n] : c \in OcrConfidences, n \in {<<>>, glareNote}}
    \cup {[type |-> t, confidence |-> "high"] : t \in OcrTypes}
    \cup {[type |-> t, raw_text |-> <<>>, confidence |-> "low", notes |-> glareNote] : t \in OcrTypes}

\* results with text: every confidence, any of the optional statements
OcrReadable ==
    {[type |-> "ingredient_label", raw_text |-> r, confidence |-> c] : r \in {sugarLabel, milkLabel}, c \in OcrConfidences}
    \cup {[type |-> "ingredient_label", raw_text |-> sugarLabel, confidence |-> c] @@ Restrict(OcrStatements, S) :
             c \in {"high", "low"}, S \in SUBSET DOMAIN OcrStatements}
    \cup {[type |-> "menu", raw_text |-> milkLabel, confidence |-> "medium", notes |-> glareNote]}

OcrResults == OcrUnreadable \cup OcrReadable

InitAnalyze ==
    /\ pc = "start"
    /\ inputProfiles \in SeqsUpTo(ScanProfiles, MaxScanProfiles)
    /\ inputText = <<>>
    /\ parsedLabel = NoLabel
    /\ policyResults = <<>>
    /\ IdleSpans
    /\ IdleEscalation
    /\ IdleAnalysis
    /\ IdleSession
    /\ IdleMerge
    /\ IdleServices

\* await extractTextFromImage(...) resolves
ExtractText ==
    /\ pc = "start"
    /\ ocr' \in OcrResults
    /\ pc' = "extracted"
    /\ UNCHANGED <<pipelineVars, analysis, sessionVars, mergeVars, serviceVars>>

\* extractTextFromImage throws (HTTP error, empty response): the call rejects
ExtractFails ==
    /\ pc = "start"
    /\ pc' = "failed"
    /\ UNCHANGED <<pipelineVars, analysisVars, sessionVars, mergeVars, serviceVars>>

\* the rest of analyzeImageFull
AnalyzeOcr ==
    /\ pc = "extracted"
    /\ IF isUnreadable(ocr)
       THEN /\ analysis' = unreadableResult(ocr, inputProfiles)
            /\ UNCHANGED <<inputText, parsedLabel, policyResults>>
       ELSE /\ inputText' = fullTextOf(ocr)
            /\ parsedLabel' = parseIngredientLabel(inputText')
            /\ policyResults' = evaluateLabelForProfiles(parsedLabel', userProfilesOf(inputProfiles))
            /\ analysis' = withOcr(analysisOf(inputText', parsedLabel', policyResults'),
                                   inputText', ocr.confidence, warningsOf(ocr))
    /\ pc' = "done"
    /\ UNCHANGED <<ocr, inputTerm, spanResult, inputProfiles,
                   inputRisks, priorResults, profileResults, escalated>>
    /\ UNCHANGED <<sessionVars, mergeVars, serviceVars>>

SpecAnalyze == InitAnalyze /\ [][ExtractText \/ ExtractFails \/ AnalyzeOcr]_vars

\* the OCR result is unreadable, stated on its fields
Unreadable ==
    \/ ocr.type = "unreadable"
    \/ "raw_text" \notin DOMAIN ocr
    \/ ocr.raw_text = <<>>

C12_FailClosed ==
    pc = "done" /\ (Unreadable \/ ocr.confidence = "low") =>
        \A i \in 1..Len(analysis.results) :
            /\ analysis.results[i].status # "safe"
            /\ ~analysis.results[i].safe

----------------------------------------------------------------------------
(* createAdminAlertIfNeeded(userId, sessionId, analysisResult, profileIds) *)
(* of adminAlerts.ts, called for one scan result after another             *)

\* the most createAdminAlertIfNeeded calls
MaxAlertCalls == 2

anyFinding(result) ==
    \/ "allergensDetected" \in DOMAIN result /\ Len(result.allergensDetected) > 0
    \/ Len(result.dietaryFlags) > 0

\* Array.isArray(result.allergensDetected) && result.allergensDetected.length > 0
shouldCreateAdminAlert(result) ==
    "allergensDetected" \in DOMAIN result /\ Len(result.allergensDetected) > 0

\* buildAlertSummary: the pieces of the summary text
RECURSIVE joinComma(_)
joinComma(list) ==
    IF Len(list) <= 1 THEN list
    ELSE <<Head(list), ", ">> \o joinComma(Tail(list))

buildAlertSummary(allergens) ==
    IF Len(allergens) = 0 THEN <<>>
    ELSE IF Len(allergens) = 1 THEN <<"Contains ", allergens[1]>>
    ELSE <<"Contains ">> \o joinComma(SubSeq(allergens, 1, Len(allergens) - 1))
         \o <<" and ", allergens[Len(allergens)]>>

\* analysisResult.allergensDetected.map((a) => a.allergenId)
allergenIdsOf(result) ==
    [i \in 1..Len(result.allergensDetected) |-> result.allergensDetected[i].allergenId]

\* the AdminAlert document handed to addDoc
alertData(sessionId, result, profileIds) ==
    [sessionId |-> sessionId, summary |-> buildAlertSummary(allergenIdsOf(result)),
     allergens |-> allergenIdsOf(result), profileIds |-> profileIds, isRead |-> FALSE]

\* the results the alert service is called with: complete results, and results whose
\* allergensDetected is not a list
AlertResults ==
    LET full == {[menuItems |-> <<>>, allergensDetected |-> a, dietaryFlags |-> f,
                  confidence |-> c] :
                    a \in {<<>>, <<peanutMatch>>, <<soyMatch, peanutMatch>>},
                    f \in {<<>>, <<"vegan">>, <<"vegan", "gluten-free">>},
                    c \in {20, 85}}
    IN  full \cup {Restrict(r, {"menuItems", "dietaryFlags", "confidence"}) : r \in full}

AlertSessions == {"session-1"}
AlertProfileIds == {<<"ann">>}

InitAlerts ==
    /\ pc = "start"
    /\ alertCalls = <<>>
    /\ adminAlerts = <<>>
    /\ IdlePipeline
    /\ IdleScan
    /\ IdleFingerprint /\ IdleHistory /\ clientAnalysis = <<>> /\ IdleLimiter

\* one call; stored is FALSE when Firebase is not configured or addDoc rejects
CreateAlert(sessionId, result, profileIds, stored) ==
    /\ Len(alertCalls) < MaxAlertCalls
    /\ LET needed == shouldCreateAdminAlert(result)
       IN  /\ alertCalls' = Append(alertCalls,
                                   [result |-> result, needed |-> needed,
                                    returnedId |-> needed /\ stored])
           /\ adminAlerts' = IF needed /\ stored
                             THEN Append(adminAlerts, alertData(sessionId, result, profileIds))
                             ELSE adminAlerts
    /\ pc' = "done"
    /\ UNCHANGED <<names, fingerprint, historySaves, scanHistory, clientAnalysis,
                   limiter, windows, now, responses>>
    /\ UNCHANGED <<pipelineVars, analysisVars, sessionVars, mergeVars>>

SpecAlerts ==
    InitAlerts /\ [][\E sessionId \in AlertSessions, result \in AlertResults,
                        profileIds \in AlertProfileIds, stored \in BOOLEAN :
                            CreateAlert(sessionId, result, profileIds, stored)]_vars

\* the result carries at least one allergen finding
HasAllergenFindings(result) ==
    /\ "allergensDetected" \in DOMAIN result
    /\ result.allergensDetected # <<>>

\* the calls that stored an alert
StoredCalls == {i \in 1..Len(alertCalls) : alertCalls[i].returnedId}

\* C21: shouldCreateAdminAlert answers true exactly for a result whose allergensDetected
\* is a non-empty list, whatever its dietaryFlags and confidence; a call for a result
\* without allergen findings returns null and stores nothing, the collection holds one
\* document per call that returned an id, and every stored alert has a non-empty
\* allergens list and isRead = false.
C21_AlertOnlyForAllergens ==
    /\ \A i \in 1..Len(alertCalls) :
        /\ alertCalls[i].needed <=> HasAllergenFindings(alertCalls[i].result)
        /\ ~HasAllergenFindings(alertCalls[i].result) => ~alertCalls[i].returnedId
    /\ Len(adminAlerts) = Cardinality(StoredCalls)
    /\ \A k \in 1..Len(adminAlerts) :
        /\ adminAlerts[k].allergens # <<>>
        /\ adminAlerts[k].isRead = FALSE

\* a preferences-only result stored nothing and a low-confidence result with an allergen
\* stored an alert
C21_Witness ==
    /\ Len(alertCalls) = 2
    /\ HasAllergenFindings(alertCalls[1].result) = FALSE
    /\ "allergensDetected" \in DOMAIN alertCalls[1].result
    /\ alertCalls[1].result.dietaryFlags # <<>>
    /\ alertCalls[1].result.confidence = 85
    /\ alertCalls[2].result.confidence = 20
    /\ alertCalls[2].returnedId
    /\ Len(adminAlerts) = 1
    /\ adminAlerts[1].allergens = <<"soy", "peanuts">>
    /\ adminAlerts[1].summary = <<"Contains ", "soy", " and ", "peanuts">>

----------------------------------------------------------------------------
(* scanHelpers.ts: normalizeTokens and computeItemFingerprint.  A name that *)
(* is null or undefined is a field the arguments do not carry; the null     *)
(* result is the record without a value.                                    *)

\* the replace of /[^a-z0-9\s]/g by '': the characters that stay
keepsChar(c) == c \in Range(LowerChars) \/ c \in DigitChars \/ IsSpace(c)

\* t.toLowerCase().replace(/[^a-z0-9\s]/g, '').trim()
normalizeToken(t) ==
    LET lower == ToLower(t)
    IN  Trim(AtIndexes(lower, {i \in 1..Len(lower) : keepsChar(lower[i])}))

\* tokens.map(...).filter(Boolean)
normalizeTokens(tokens) ==
    LET mapped == [i \in 1..Len(tokens) |-> normalizeToken(tokens[i])]
    IN  AtIndexes(mapped, {i \in 1..Len(mapped) : mapped[i] # <<>>})

\* Array.prototype.join
RECURSIVE join(_, _)
join(list, separator) ==
    IF list = <<>> THEN <<>>
    ELSE IF Len(list) = 1 THEN list[1]
    ELSE list[1] \o separator \o join(Tail(list), separator)

\* name && name.trim(): falsy (here the empty string) for null, undefined, "" and blanks
trimmedName(args, field) == IF field \in DOMAIN args THEN Trim(args[field]) ELSE <<>>

guessedFirst(args) ==
    IF trimmedName(args, "guessedName") # <<>> THEN trimmedName(args, "guessedName")
    ELSE trimmedName(args, "confirmedName")

\* (confirmedName && confirmedName.trim()) || (guessedName && guessedName.trim())
sourceOf(args) ==
    IF trimmedName(args, "confirmedName") # <<>> THEN trimmedName(args, "confirmedName")
    ELSE trimmedName(args, "guessedName")

NullFingerprint == [isNull |-> TRUE]
fingerprintOf(normalized) ==
    IF normalized = <<>> THEN NullFingerprint
    ELSE [isNull |-> FALSE, value |-> <<"f", "p", ":">> \o normalized]

computeItemFingerprint(args) ==
    IF sourceOf(args) = <<>> THEN NullFingerprint
    ELSE fingerprintOf(join(normalizeTokens(<<sourceOf(args)>>), <<"-">>))

\* the longest generated name
MaxNameLen == 2

NameChars == {"A", "b", " ", "&"}
grilledChickenBang == <<"G","r","i","l","l","e","d"," ","C","h","i","c","k","e","n","!">>
grilledChicken == <<"G","r","i","l","l","e","d"," ","C","h","i","c","k","e","n">>
chickenDish == <<"c","h","i","c","k","e","n"," ","d","i","s","h">>
caesarSalad == <<"C","a","e","s","a","r"," ","S","a","l","a","d">>
fishAndChips == <<"F","i","s","h"," ","&"," ","C","h","i","p","s","!">>
paddedPasta == <<" "," ","P","a","s","t","a"," "," ">>
onlyBangs == <<"!","!">>
NameExamples ==
    {grilledChickenBang, grilledChicken, chickenDish, caesarSalad, fishAndChips, paddedPasta,
     onlyBangs}
NamePool == SeqsUpTo(NameChars, MaxNameLen) \cup NameExamples

\* the argument pairs: each name a string, or null / undefined
NameArgs ==
    {Restrict([confirmedName |-> c, guessedName |-> g], S) :
        c \in NamePool, g \in NamePool, S \in SUBSET {"confirmedName", "guessedName"}}

InitFingerprint ==
    /\ pc = "start"
    /\ names \in NameArgs
    /\ fingerprint = <<>>
    /\ IdlePipeline
    /\ IdleScan
    /\ IdleAlerts /\ IdleHistory /\ clientAnalysis = <<>> /\ IdleLimiter

ComputeFingerprint ==
    /\ pc = "start"
    /\ fingerprint' = <<computeItemFingerprint(names)>>
    /\ pc' = "done"
    /\ UNCHANGED <<alertCalls, adminAlerts, names, historySaves, scanHistory, clientAnalysis,
                   limiter, windows, now, responses>>
    /\ UNCHANGED <<pipelineVars, analysisVars, sessionVars, mergeVars>>

SpecFingerprint == InitFingerprint /\ [][ComputeFingerprint]_vars

\* the call was made with exactly these arguments
CalledWith(args) == pc = "done" /\ names = args

\* C22: the fingerprint is "fp:" and the words of the normalized name joined by hyphens:
\* ("Grilled Chicken!", null) gives "fp:grilled-chicken", ("Fish & Chips!", null) gives
\* "fp:fish-chips", (null, "Caesar Salad") gives "fp:caesar-salad", and a fingerprint
\* that is not null never contains a space.
C22_FingerprintFormat ==
    /\ CalledWith([confirmedName |-> grilledChickenBang])
        => fingerprint[1] = [isNull |-> FALSE, value |-> <<"f","p",":","g","r","i","l","l","e","d","-","c","h","i","c","k","e","n">>]
    /\ CalledWith([confirmedName |-> fishAndChips])
        => fingerprint[1] = [isNull |-> FALSE, value |-> <<"f","p",":","f","i","s","h","-","c","h","i","p","s">>]
    /\ CalledWith([guessedName |-> caesarSalad])
        => fingerprint[1] = [isNull |-> FALSE, value |-> <<"f","p",":","c","a","e","s","a","r","-","s","a","l","a","d">>]
    /\ pc = "done" /\ ~fingerprint[1].isNull => " " \notin Range(fingerprint[1].value)

\* the name is null, undefined or blank
Blank(args, field) == field \notin DOMAIN args \/ \A i \in 1..Len(args[field]) : IsSpace(args[field][i])

\* the same call with another guessedName, or none
OtherGuesses(args) ==
    {Restrict(args, {"confirmedName"} \cap DOMAIN args)}
    \cup {[f \in (DOMAIN args \cup {"guessedName"}) |->
              IF f = "guessedName" THEN g ELSE args[f]] : g \in NamePool}
OtherConfirmed(args) ==
    {Restrict(args, {"guessedName"} \cap DOMAIN args)}
    \cup {[f \in (DOMAIN args \cup {"confirmedName"}) |->
              IF f = "confirmedName" THEN c ELSE args[f]] : c \in {<<>>, <<" ">>, <<" ", " ">>}}

\* C23: with a confirmedName that is not blank the fingerprint is the same for every
\* guessedName (also when it is null because the confirmed name normalizes to nothing);
\* with a null, undefined or blank confirmedName the fingerprint is the one of the
\* guessedName alone, whichever absent form the confirmedName takes; with both names
\* null, undefined or blank the result is null; every call returns.
C23_ConfirmedNameWins ==
    pc = "done" =>
        /\ Len(fingerprint) = 1
        /\ ~Blank(names, "confirmedName")
            => \A other \in OtherGuesses(names) : computeItemFingerprint(other) = fingerprint[1]
        /\ Blank(names, "confirmedName")
            => \A other \in OtherConfirmed(names) : computeItemFingerprint(other) = fingerprint[1]
        /\ Blank(names, "confirmedName") /\ Blank(names, "guessedName")
            => fingerprint[1] = NullFingerprint

\* a confirmed name won over a different guessed name that would have given another result
C23_Witness ==
    /\ pc = "done"
    /\ names = [confirmedName |-> grilledChicken, guessedName |-> chickenDish]
    /\ ~fingerprint[1].isNull
    /\ computeItemFingerprint([guessedName |-> chickenDish]) # fingerprint[1]

----------------------------------------------------------------------------
(* scanHistory.ts: saveScanToHistory(userId, result, scanType, productName), *)
(* called by the scan screens of a scan session                              *)

\* the most saveScanToHistory calls
MaxSaves == 3

\* result.results.filter(keep).length
countResults(results, safe) == Cardinality({i \in 1..Len(results) : results[i].safe = safe})

\* the historyItem handed to addDoc (its timestamp is the wall clock, not modelled)
historyItem(result, scanType) ==
    [type |-> scanType,
     ingredients |-> result.ingredients,
     safeCount |-> countResults(result.results, TRUE),
     unsafeCount |-> countResults(result.results, FALSE),
     familyChecked |-> Len(result.results) > 1,
     checkedProfileNames |-> [i \in 1..Len(result.results) |-> result.results[i].name],
     results |-> [i \in 1..Len(result.results) |->
                    Restrict(result.results[i], {"profileId", "name", "safe", "status", "reasons"})]]

\* addDoc: a new document under an ID Firestore generates
AutoId(collection) == <<"auto", Len(collection) + 1>>
addDoc(collection, data) == Append(collection, [id |-> AutoId(collection), data |-> data])

annSafe == [profileId |-> "ann", name |-> "Ann", safe |-> TRUE, status |-> "safe",
            reasons |-> <<>>, matchedAllergens |-> <<>>]
benUnsafe == [profileId |-> "ben", name |-> "Ben", safe |-> FALSE, status |-> "unsafe",
              reasons |-> <<"Contains milk">>, matchedAllergens |-> <<"milk">>]
HistoryResults ==
    {[ingredients |-> <<"sugar">>, results |-> <<annSafe>>],
     [ingredients |-> <<"milk">>, results |-> <<annSafe, benUnsafe>>]}
HistorySessions == {"session-1", "session-2"}
ScanTypes == {"camera", "barcode"}

InitHistory ==
    /\ pc = "start"
    /\ historySaves = <<>>
    /\ scanHistory = <<>>
    /\ IdlePipeline
    /\ IdleScan
    /\ IdleAlerts /\ IdleFingerprint /\ clientAnalysis = <<>> /\ IdleLimiter

\* one save made in the scan session sessionId; stored is FALSE when Firebase is not
\* configured or addDoc rejects, and the call then returns null
SaveHistory(sessionId, result, scanType, stored) ==
    /\ Len(historySaves) < MaxSaves
    /\ scanHistory' = IF stored THEN addDoc(scanHistory, historyItem(result, scanType))
                      ELSE scanHistory
    /\ historySaves' = Append(historySaves,
                              IF stored
                              THEN [sessionId |-> sessionId, returnedId |-> AutoId(scanHistory)]
                              ELSE [sessionId |-> sessionId])
    /\ pc' = "done"
    /\ UNCHANGED <<alertCalls, adminAlerts, names, fingerprint, clientAnalysis,
                   limiter, windows, now, responses>>
    /\ UNCHANGED <<pipelineVars, analysisVars, sessionVars, mergeVars>>

SpecHistory ==
    InitHistory /\ [][\E sessionId \in HistorySessions, result \in HistoryResults,
                         scanType \in ScanTypes, stored \in BOOLEAN :
                             SaveHistory(sessionId, result, scanType, stored)]_vars

\* the history documents the saves of one session created
EntriesOf(sessionId) ==
    {k \in 1..Len(scanHistory) :
        \E i \in 1..Len(historySaves) :
            /\ historySaves[i].sessionId = sessionId
            /\ "returnedId" \in DOMAIN historySaves[i]
            /\ historySaves[i].returnedId = scanHistory[k].id}

\* C24: however often history is saved for a session, the collection holds at most one
\* history entry for it (no duplicate history entries).
C24_HistoryOncePerSession ==
    \A sessionId \in HistorySessions : Cardinality(EntriesOf(sessionId)) <= 1

----------------------------------------------------------------------------
(* labels whose Ingredients, Contains and May-contain sections come in any *)
(* order, parsed and evaluated for one profile                              *)

\* the most sections of one label
MaxSections == 3

ingredientsSection == <<"I","n","g","r","e","d","i","e","n","t","s",":"," ","s","u","g","a","r">>
containsSection == <<"C","o","n","t","a","i","n","s",":"," ","m","i","l","k">>
mayContainSection == <<"M","a","y"," ","c","o","n","t","a","i","n",":"," ","n","u","t","s">>
SectionPool == {ingredientsSection, containsSection, mayContainSection}
SectionSeparators == {<<".", " ">>, <<"\n">>}
threeLineLabel == <<"I","n","g","r","e","d","i","e","n","t","s",":"," ","s","u","g","a","r",","," ","s","a","l","t">> \o <<"\n">> \o <<"C","o","n","t","a","i","n","s",":"," ","m","i","l","k">> \o <<"\n">> \o <<"M","a","y"," ","c","o","n","t","a","i","n",":"," ","s","o","y">>

\* every choice of distinct sections in every order
SectionOrders ==
    {order \in SeqsUpTo(SectionPool, MaxSections) :
        order # <<>> /\ \A i, j \in 1..Len(order) : i # j => order[i] # order[j]}

SectionTexts ==
    {join(order, separator) : order \in SectionOrders, separator \in SectionSeparators}
    \cup {threeLineLabel}

SpecSections == InitLabel(SectionTexts) /\ [][ParseLabel \/ EvaluateOne]_vars

\* the text declares milk in a "Contains:" statement
DeclaresMilk ==
    \E separator \in SectionSeparators, order \in SectionOrders :
        /\ inputText = join(order, separator)
        /\ containsSection \in Range(order)

\* C25: a label that declares an allergy of the profile in a "Contains:" statement is
\* UNSAFE for the profile, whatever the order of its Ingredients, Contains and
\* May-contain sections.
C25_DeclaredAllergenUnsafe ==
    pc = "done" /\ DeclaresMilk /\ Milk \in Range(inputProfiles[1].allergies)
        => policyResults[1].status = "UNSAFE"

\* C26: in a label with an Ingredients section no ingredient token holds a "contains:"
\* or "may contain" keyword and no contains statement holds a "may contain" keyword:
\* each region stops where the next section keyword starts.
C26_SectionsEndAtNextKeyword ==
    pc # "start" /\ "ingredients" \in DOMAIN parsedLabel.sections =>
        /\ \A i \in 1..Len(parsedLabel.ingredients) :
            /\ ~Includes(parsedLabel.ingredients[i], <<"c","o","n","t","a","i","n","s",":">>)
            /\ ~Includes(parsedLabel.ingredients[i], <<"m","a","y"," ","c","o","n","t","a","i","n">>)
        /\ \A i \in 1..Len(parsedLabel.containsStatements) :
            ~Includes(parsedLabel.containsStatements[i], <<"m","a","y"," ","c","o","n","t","a","i","n">>)

----------------------------------------------------------------------------
(* every violation term of every dietary rule as the only ingredient of a  *)
(* label, evaluated for a profile that holds the rule's preference          *)

TermRules == 1..Len(DIETARY_RULES)
TermText(violationTerm) == <<"I","n","g","r","e","d","i","e","n","t","s",":"," ">> \o violationTerm
TermTexts ==
    UNION {{TermText(DIETARY_RULES[r].violationTerms[k]) :
                k \in 1..Len(DIETARY_RULES[r].violationTerms)} : r \in TermRules}

\* a profile whose only preference is the rule's
holderOf(rule) == Profile("holder", <<>>, <<>>, <<rule.key>>, <<>>, FALSE)

\* the term of the label is a violation term of the rule
TermOf(rule) == \E k \in 1..Len(rule.violationTerms) : inputText = TermText(rule.violationTerms[k])

EvaluateHolder ==
    \E r \in TermRules :
        /\ TermOf(DIETARY_RULES[r])
        /\ EvaluateProfiles(<<holderOf(DIETARY_RULES[r])>>)

SpecTerms == InitLabel(TermTexts) /\ [][ParseLabel \/ EvaluateHolder]_vars

\* C27: the label "Ingredients: v" of a violation term v that no plant-based exception
\* covers yields a DIETARY finding of severity UNSAFE for the rule of the profile's
\* preference; "half and half" is such a term.
C27_EveryViolationTermFound ==
    pc = "done" =>
        \A r \in TermRules :
            /\ inputProfiles = <<holderOf(DIETARY_RULES[r])>>
            /\ \E k \in 1..Len(DIETARY_RULES[r].violationTerms) :
                /\ inputText = TermText(DIETARY_RULES[r].violationTerms[k])
                /\ ~isPlantBasedException(DIETARY_RULES[r].violationTerms[k],
                                          DIETARY_RULES[r].violationTerms[k])
            => \E i \in 1..Len(policyResults[1].findings) :
                /\ policyResults[1].findings[i].kind = "DIETARY"
                /\ policyResults[1].findings[i].severity = "UNSAFE"
                /\ policyResults[1].findings[i].canonicalTerm = DIETARY_RULES[r].label

----------------------------------------------------------------------------
(* The client pipeline analyzeIngredientsText(rawText, profiles) next to   *)
(* the server's analyzeExtractedText and analyzeImageFull, and              *)
(* escalateInferredRisks applied to their results                           *)

\* the object literal of profileInfoToUserProfile: it sets neither customAllergies nor
\* customPreferences and always sets treatMayContainAsUnsafe to false
profileInfoToUserProfile(profile) ==
    [id |-> profile.id,
     name |-> profile.name,
     allergies |-> Coalesce(profile, "allergies", <<>>),
     preferences |-> Coalesce(profile, "preferences", <<>>),
     forbiddenKeywords |-> Coalesce(profile, "forbiddenKeywords", <<>>),
     treatMayContainAsUnsafe |-> FALSE]

notUnsafe(pr) == pr.status # "UNSAFE"

\* safe: pr.status === "SAFE"
clientSafeOf(pr) == pr.status = "SAFE"

\* the callback of policyResults.map in policyResultsToAnalysisResult
clientProfileResultOf(pr) ==
    [profileId |-> pr.profileId,
     name |-> pr.profileName,
     safe |-> clientSafeOf(pr),
     status |-> statusWordOf(pr.status),
     reasons |-> [i \in 1..Len(pr.findings) |-> pr.findings[i].reason],
     matchedAllergens |-> matchedOfKind(pr.findings, "ALLERGEN"),
     matchedKeywords |-> matchedOfKind(pr.findings, "FORBIDDEN_KEYWORD"),
     matchedPreferences |-> matchedOfKind(pr.findings, "DIETARY")]

policyResultsToAnalysisResult(label, results) ==
    [ingredients |-> label.ingredients,
     results |-> [i \in 1..Len(results) |-> clientProfileResultOf(results[i])],
     matchedIngredients |-> addResults(<<>>, results)]

evaluatedClientText(label, profiles) ==
    policyResultsToAnalysisResult(label, evaluateLabelForProfiles(label, profiles))

analyzeIngredientsText(rawText, profiles) ==
    evaluatedClientText(parseIngredientLabel(rawText),
                        [i \in 1..Len(profiles) |-> profileInfoToUserProfile(profiles[i])])

\* analyzeImageFull once extractTextFromImage has resolved to ocrResult
analyzeImageFull(ocrResult, profiles) ==
    IF isUnreadable(ocrResult) THEN unreadableResult(ocrResult, profiles)
    ELSE withOcr(analyzeExtractedText(fullTextOf(ocrResult), profiles),
                 fullTextOf(ocrResult), ocrResult.confidence, warningsOf(ocrResult))

\* the most items escalateInferredRisks may have escalated before it is applied again
MaxEscalated == 2

\* a ProfileInfo with custom entries
calInfo == [id |-> "cal", name |-> "Cal", allergies |-> <<>>, customAllergies |-> <<<<"S","a","l","t">>>>,
            preferences |-> <<>>, customPreferences |-> <<Dairy>>]
PipelineProfiles == ScanProfiles \cup {calInfo}

mayContainLabel == <<"I","n","g","r","e","d","i","e","n","t","s",":"," ","s","u","g","a","r","."," ","M","a","y"," ","c","o","n","t","a","i","n",":"," ","m","i","l","k",","," ","s","o","y">>
naturalFlavorsLabel == <<"I","n","g","r","e","d","i","e","n","t","s",":"," ","n","a","t","u","r","a","l"," ","f","l","a","v","o","r","s">>
PipelineTexts == {sugarLabel, milkLabel, mayContainLabel, naturalFlavorsLabel}

\* what the OCR collaborator may return for the label
OcrOf(text) ==
    {[type |-> "ingredient_label", raw_text |-> text, confidence |-> "high"],
     [type |-> "ingredient_label", raw_text |-> text, confidence |-> "low",
      contains_statement |-> <<"m","i","l","k">>],
     [type |-> "unreadable", raw_text |-> text, confidence |-> "low"],
     [type |-> "menu", confidence |-> "medium", notes |-> glareNote]}

PipelineRisks == {<<>>, <<<<"c","o","r","n">>>>, <<<<"p","e","a","n","u","t">>>>}

InitPipelines ==
    /\ pc = "start"
    /\ inputText \in PipelineTexts
    /\ inputProfiles \in SeqsUpTo(PipelineProfiles, MaxScanProfiles)
    /\ parsedLabel = NoLabel
    /\ policyResults = <<>>
    /\ clientAnalysis = <<>>
    /\ IdleSpans
    /\ IdleEscalation
    /\ IdleScan
    /\ IdleAlerts /\ IdleFingerprint /\ IdleHistory /\ IdleLimiter

AnalyzeClient ==
    /\ pc = "start"
    /\ clientAnalysis' = analyzeIngredientsText(inputText, inputProfiles)
    /\ pc' = "client"
    /\ UNCHANGED <<alertCalls, adminAlerts, names, fingerprint, historySaves, scanHistory,
                   limiter, windows, now, responses>>
    /\ UNCHANGED <<pipelineVars, analysisVars, sessionVars, mergeVars>>

AnalyzeServer ==
    /\ pc = "client"
    /\ analysis' = analyzeExtractedText(inputText, inputProfiles)
    /\ pc' = "server"
    /\ UNCHANGED <<pipelineVars, ocr, sessionVars, mergeVars, serviceVars>>

AnalyzeImage(ocrResult) ==
    /\ pc = "client"
    /\ ocr' = ocrResult
    /\ analysis' = analyzeImageFull(ocrResult, inputProfiles)
    /\ pc' = "image"
    /\ UNCHANGED <<pipelineVars, sessionVars, mergeVars, serviceVars>>

\* the results escalateInferredRisks is applied to next: those of the client, those of
\* the server, or the ones it returned before
EscalationSources ==
    IF pc \in {"server", "image"} THEN {clientAnalysis.results, analysis.results}
    ELSE IF pc = "escalated" THEN {clientAnalysis.results, analysis.results, profileResults}
    ELSE {}

EscalateAnalysis(results, risks) ==
    /\ pc \in {"server", "image", "escalated"}
    /\ Len(escalated) < MaxEscalated
    /\ priorResults' = results
    /\ inputRisks' = risks
    /\ profileResults' = escalateInferredRisks(results, risks).results
    /\ escalated' = escalated \o escalateInferredRisks(results, risks).escalatedItems
    /\ pc' = "escalated"
    /\ UNCHANGED <<inputText, inputTerm, spanResult, parsedLabel, inputProfiles, policyResults>>
    /\ UNCHANGED <<analysisVars, sessionVars, mergeVars, serviceVars>>

NextPipelines ==
    \/ AnalyzeClient
    \/ AnalyzeServer
    \/ \E ocrResult \in OcrOf(inputText) : AnalyzeImage(ocrResult)
    \/ \E results \in EscalationSources, risks \in PipelineRisks :
            EscalateAnalysis(results, risks)

SpecPipelines == InitPipelines /\ [][NextPipelines]_vars

\* the fields the two pipelines are compared on
Compared(result) ==
    Restrict(result, {"profileId", "status", "safe", "matchedAllergens", "matchedKeywords",
                      "matchedPreferences"})

\* C28: for the same text and the same profiles the client pipeline and the server
\* pipeline return the same ingredients and, for every profile, the same status, safe
\* flag, matchedAllergens, matchedKeywords and matchedPreferences.
C28_ClientEqualsServer ==
    pc = "server" =>
        /\ clientAnalysis.ingredients = analysis.ingredients
        /\ Len(clientAnalysis.results) = Len(analysis.results)
        /\ \A i \in 1..Len(analysis.results) :
            Compared(clientAnalysis.results[i]) = Compared(analysis.results[i])

\* safe says what status says, and a safe result names no allergen and no keyword
Coherent(result) ==
    /\ result.safe <=> result.status = "safe"
    /\ result.status = "safe" => result.matchedAllergens = <<>> /\ result.matchedKeywords = <<>>

\* every ProfileResult produced so far
ProducedResults ==
    (IF clientAnalysis = <<>> THEN {} ELSE Range(clientAnalysis.results))
    \cup (IF analysis = <<>> THEN {} ELSE Range(analysis.results))
    \cup Range(profileResults)

\* C29: in every ProfileResult of analyzeIngredientsText, analyzeExtractedText,
\* analyzeImageFull and of escalateInferredRisks applied to such results once or
\* repeatedly, safe is true exactly when status is "safe", and a result with status
\* "safe" has empty matchedAllergens and matchedKeywords.
C29_SafeFlagMatchesStatus == \A result \in ProducedResults : Coherent(result)

\* a caution result of the client, an unsafe result of the image analysis and a result
\* escalated from safe to unsafe
C29_Witness ==
    /\ pc = "escalated"
    /\ \E i \in 1..Len(clientAnalysis.results) : clientAnalysis.results[i].status = "caution"
    /\ ocr # <<>>
    /\ \E i \in 1..Len(analysis.results) : analysis.results[i].status = "unsafe"
    /\ \E i \in 1..Len(priorResults) :
        /\ priorResults[i].safe
        /\ priorResults[i].status = "safe"
        /\ ~profileResults[i].safe
        /\ profileResults[i].status = "unsafe"

----------------------------------------------------------------------------
(* rateLimiter.ts: the middleware createRateLimiter({windowMs, maxRequests}) *)
(* returns, answering one request after another                              *)

\* the sweep threshold; 10_000 in the source, scaled to the number of clients modelled
CLEANUP_THRESHOLD == 2
\* the largest maxRequests option
MaxLimit == 2
\* the windowMs option, in clock ticks
WindowTicks == 2
\* the last reading of Date.now()
MaxTime == 3
\* the most requests answered
MaxRequests == 5

\* requests: behind a proxy (x-forwarded-for), direct (req.ip), and without either
LimiterRequests ==
    {[ip |-> "10.0.0.1"],
     [forwarded |-> <<"10.0.0.3", "10.0.0.1">>, ip |-> "10.0.0.1"],
     [forwarded |-> <<"10.0.0.1">>, ip |-> "10.0.0.9"],
     [path |-> "/api/analyze-image"]}

\* forwarded.split(",")[0].trim(), or req.ip ?? "unknown"
clientIp(req) ==
    IF "forwarded" \in DOMAIN req THEN req.forwarded[1] ELSE Coalesce(req, "ip", "unknown")

windowPassed(entry, at) == at > entry.expiresAt

\* now >= entry.expiresAt
windowExpired(entry, at) == at >= entry.expiresAt

\* sweep(now): every expired entry is deleted
sweep(map, at) == Restrict(map, {k \in DOMAIN map : ~windowExpired(map[k], at)})

\* if (windows.size > CLEANUP_THRESHOLD) sweep(now)
afterCleanup(map, at) ==
    IF Cardinality(DOMAIN map) > CLEANUP_THRESHOLD THEN sweep(map, at) ELSE map

\* windows.set(key, entry)
setEntry(map, key, entry) ==
    [k \in DOMAIN map \cup {key} |-> IF k = key THEN entry ELSE map[k]]

\* the middleware after the cleanup: the map it leaves and whether next() was called
answer(options, map, key, at) ==
    IF key \notin DOMAIN map \/ windowExpired(map[key], at)
    THEN [windows |-> setEntry(map, key, [count |-> 1, expiresAt |-> at + options.windowMs]),
          status |-> "next"]
    ELSE IF map[key].count >= options.maxRequests
    THEN [windows |-> map, status |-> "429"]
    ELSE [windows |-> setEntry(map, key, [map[key] EXCEPT !.count = @ + 1]), status |-> "next"]

middleware(options, map, key, at) == answer(options, afterCleanup(map, at), key, at)

LimiterOptions == {[windowMs |-> WindowTicks, maxRequests |-> m] : m \in 1..MaxLimit}

InitLimiter ==
    /\ pc = "start"
    /\ limiter \in LimiterOptions
    /\ windows = <<>>
    /\ now = 0
    /\ responses = <<>>
    /\ IdlePipeline
    /\ IdleScan
    /\ IdleAlerts /\ IdleFingerprint /\ IdleHistory /\ clientAnalysis = <<>>

\* one request, read at clock value at
HandleRequest(req, at) ==
    /\ Len(responses) < MaxRequests
    /\ at >= now
    /\ now' = at
    /\ windows' = middleware(limiter, windows, clientIp(req), at).windows
    /\ responses' = Append(responses,
                           [key |-> clientIp(req), at |-> at,
                            status |-> middleware(limiter, windows, clientIp(req), at).status])
    /\ pc' = "done"
    /\ UNCHANGED <<alertCalls, adminAlerts, names, fingerprint, historySaves, scanHistory,
                   clientAnalysis, limiter>>
    /\ UNCHANGED <<pipelineVars, analysisVars, sessionVars, mergeVars>>

SpecLimiter ==
    InitLimiter /\ [][\E req \in LimiterRequests, at \in 0..MaxTime : HandleRequest(req, at)]_vars

\* the requests of the client passed to next() in its current window
PassedInWindow(key) ==
    {i \in 1..Len(responses) :
        /\ responses[i].key = key
        /\ responses[i].status = "next"
        /\ responses[i].at >= windows[key].expiresAt - limiter.windowMs}

\* every entry counts the requests passed in its window, at least 1 and at most maxRequests
CountsBounded ==
    \A key \in DOMAIN windows :
        /\ windows[key].count = Cardinality(PassedInWindow(key))
        /\ windows[key].count >= 1
        /\ windows[key].count <= limiter.maxRequests

\* the entry of the client is in its window at the time of the request
Live(key, at) == key \in DOMAIN windows /\ at < windows[key].expiresAt

\* the answer to the request of this step and the entry of its client
OwnEntryStep(key, at, status) ==
    /\ ~Live(key, at) =>
        /\ status = "next"
        /\ windows'[key] = [count |-> 1, expiresAt |-> at + limiter.windowMs]
    /\ Live(key, at) /\ windows[key].count < limiter.maxRequests =>
        /\ status = "next"
        /\ windows'[key] = [count |-> windows[key].count + 1,
                            expiresAt |-> windows[key].expiresAt]
    /\ Live(key, at) /\ windows[key].count >= limiter.maxRequests =>
        /\ status = "429"
        /\ windows'[key] = windows[key]

\* no entry of another client is added, changed or removed
OthersUntouched(key) ==
    \A other \in (DOMAIN windows \cup DOMAIN windows') \ {key} :
        /\ other \in DOMAIN windows
        /\ other \in DOMAIN windows'
        /\ windows'[other] = windows[other]

\* an entry of another client is never added or changed; it is removed only when it has
\* expired and the map holds more than CLEANUP_THRESHOLD entries
OthersKeptOrSwept(key, at) ==
    \A other \in (DOMAIN windows \cup DOMAIN windows') \ {key} :
        /\ other \in DOMAIN windows
        /\ other \in DOMAIN windows' => windows'[other] = windows[other]
        /\ other \notin DOMAIN windows' =>
            /\ at >= windows[other].expiresAt
            /\ Cardinality(DOMAIN windows) > CLEANUP_THRESHOLD

\* C30 as stated: fixed window per client, and a request of one client never changes
\* the entry of another client.
C30_FixedWindowUntouched ==
    /\ [](CountsBounded)
    /\ [][LET r == responses'[Len(responses')]
          IN  OwnEntryStep(r.key, r.at, r.status) /\ OthersUntouched(r.key)]_vars

\* C30: within one window at most maxRequests requests of a client are passed to next()
\* and every further one is answered 429 with the entry unchanged; the first request at
\* or after expiresAt opens a new window with count 1; the stored count never exceeds
\* maxRequests; a request never adds or changes the entry of another client, and
\* removes it only when it has expired and the map holds more than CLEANUP_THRESHOLD
\* entries.
C30_FixedWindowPerClient ==
    /\ [](CountsBounded)
    /\ [][LET r == responses'[Len(responses')]
          IN  OwnEntryStep(r.key, r.at, r.status) /\ OthersKeptOrSwept(r.key, r.at)]_vars

\* a client was answered 429 in its window; two other clients opened windows; at
\* expiresAt the first client opened a new window and the expired entries of the others
\* were swept
C30_Witness ==
    /\ Len(responses) = 5
    /\ limiter.maxRequests = 1
    /\ responses[1] = [key |-> "10.0.0.1", at |-> 0, status |-> "next"]
    /\ responses[2] = [key |-> "10.0.0.1", at |-> 1, status |-> "429"]
    /\ responses[3] = [key |-> "10.0.0.3", at |-> 1, status |-> "next"]
    /\ responses[4] = [key |-> "unknown", at |-> 1, status |-> "next"]
    /\ responses[5] = [key |-> "10.0.0.1", at |-> 3, status |-> "next"]
    /\ DOMAIN windows = {"10.0.0.1"}
    /\ windows["10.0.0.1"] = [count |-> 1, expiresAt |-> 3 + WindowTicks]

====
